---- MODULE Spec2Model ----
(***************************************************************************)
(* A model of vcflib: the header payload tokenizer, the header-line codec, *)
(* the preamble parsers, the data-line codec and the streaming reader and  *)
(* writer.                                                                 *)
(*                                                                         *)
(* Text is a sequence of characters; a character is a one-character string *)
(* ("a", "=", "\t", ...), except the two-byte character U+00E9, written    *)
(* "U+00E9".  Rust slices text by byte offsets, so every slice taken with  *)
(* a computed offset goes through ByteSlice, which panics as Rust does.    *)
(***************************************************************************)
EXTENDS Naturals, Sequences, FiniteSets, TLC

VARIABLES
    pc,      \* position of the client that drives the library
    arg,     \* the input of the pure operation under check
    ret,     \* its result
    fmt,     \* the text Display produced from ret
    ret2,    \* the result of parsing fmt again
    file,    \* the bytes of the input file (reader)
    pos,     \* number of characters of file the BufReader has consumed
    header,  \* the result of VCFParser::new
    items,   \* the values next_item returned so far, in call order
    writer,  \* whether a VCFWriter has been constructed
    out,     \* the bytes the VCFWriter wrote to its sink
    calls    \* the DataLines passed to write_data_line so far, in call order

vars ==
    <<pc, arg, ret, fmt, ret2, file, pos, header, items, writer, out, calls>>

----------------------------------------------------------------------------
(* Results: Result::Ok, Result::Err and a panic (abort).                    *)

Ok(v) == [tag |-> "Ok", kind |-> "", val |-> v]

Err(k) == [tag |-> "Err", kind |-> k, val |-> <<>>]

ErrWith(k, v) == [tag |-> "Err", kind |-> k, val |-> v]

Panic(k) == [tag |-> "Panic", kind |-> k, val |-> <<>>]

IsOk(r) == r.tag = "Ok"

IsErr(r) == r.tag = "Err"

IsPanic(r) == r.tag = "Panic"

None == [tag |-> "None", kind |-> "", val |-> <<>>]

Some(v) == [tag |-> "Some", kind |-> "", val |-> v]

----------------------------------------------------------------------------
(* Characters and text.                                                     *)

MultiByte == "U+00E9"

\* char::len_utf8
Utf8Len(ch) == IF ch = MultiByte THEN 2 ELSE 1

\* the byte offset at which the i-th character (1-based) starts;
\* i = Len(s) + 1 gives the end of the text
ByteOff(s, i) ==
    (i - 1) + Cardinality({j \in 1..(i - 1) : s[j] = MultiByte})

\* str::len: the length in bytes
ByteLen(s) == ByteOff(s, Len(s) + 1)

\* str::is_char_boundary
IsCharBoundary(s, b) == \E i \in 1..(Len(s) + 1) : ByteOff(s, i) = b

CharAt(s, b) == CHOOSE i \in 1..(Len(s) + 1) : ByteOff(s, i) = b

\* &s[a..b]: panics unless a <= b <= len and both are character boundaries
ByteSlice(s, a, b) ==
    IF a <= b /\ IsCharBoundary(s, a) /\ IsCharBoundary(s, b)
    THEN Ok(SubSeq(s, CharAt(s, a), CharAt(s, b) - 1))
    ELSE Panic("byte index is not a char boundary or out of range")

\* &s[a..]
ByteSliceFrom(s, a) == ByteSlice(s, a, ByteLen(s))

StartsWith(s, p) == Len(p) <= Len(s) /\ SubSeq(s, 1, Len(p)) = p

EndsWith(s, p) ==
    Len(p) <= Len(s) /\ SubSeq(s, Len(s) - Len(p) + 1, Len(s)) = p

Contains(s, ch) == \E i \in 1..Len(s) : s[i] = ch

\* str::find(char) as a 1-based character index, 0 when absent
Find(s, ch) ==
    IF Contains(s, ch)
    THEN CHOOSE i \in 1..Len(s) : s[i] = ch /\ \A j \in 1..(i - 1) : s[j] # ch
    ELSE 0

\* the characters from the i-th on (1-based)
Drop(s, i) == SubSeq(s, i, Len(s))

RECURSIVE Split(_, _)
\* str::split(char): always at least one piece, empty pieces kept
Split(s, ch) ==
    LET i == Find(s, ch)
    IN  IF i = 0 THEN <<s>>
        ELSE <<SubSeq(s, 1, i - 1)>> \o Split(Drop(s, i + 1), ch)

RECURSIVE Join(_, _)
\* [String]::join(sep)
Join(parts, sep) ==
    IF parts = <<>> THEN <<>>
    ELSE IF Len(parts) = 1 THEN parts[1]
    ELSE parts[1] \o sep \o Join(Tail(parts), sep)

RECURSIVE Concat(_)
Concat(parts) ==
    IF parts = <<>> THEN <<>> ELSE Head(parts) \o Concat(Tail(parts))

WhiteSpace == {" ", "\t", "\n", "\r"}

RECURSIVE TrimStart(_)
TrimStart(s) ==
    IF s # <<>> /\ Head(s) \in WhiteSpace THEN TrimStart(Tail(s)) ELSE s

RECURSIVE TrimEnd(_)
TrimEnd(s) ==
    IF s # <<>> /\ s[Len(s)] \in WhiteSpace
    THEN TrimEnd(SubSeq(s, 1, Len(s) - 1))
    ELSE s

\* str::trim
Trim(s) == TrimEnd(TrimStart(s))

----------------------------------------------------------------------------
(* LinkedHashMap<K, V>: a sequence of <<key, value>> entries in iteration   *)
(* order, keys pairwise distinct.                                           *)

MapKeys(m) == [i \in 1..Len(m) |-> m[i][1]]

MapContainsKey(m, k) == \E i \in 1..Len(m) : m[i][1] = k

\* LinkedHashMap::get
MapGet(m, k) ==
    IF MapContainsKey(m, k)
    THEN Some(m[CHOOSE i \in 1..Len(m) : m[i][1] = k][2])
    ELSE None

MapRemove(m, k) == SelectSeq(m, LAMBDA e : e[1] # k)

\* an insert that leaves an existing key at its place in the order
MapInsert_in_place(m, k, v) ==
    IF \E i \in 1..Len(m) : m[i][1] = k
    THEN [i \in 1..Len(m) |-> IF m[i][1] = k THEN <<k, v>> ELSE m[i]]
    ELSE Append(m, <<k, v>>)

\* LinkedHashMap::insert: an existing key gets the new value and moves to
\* the back of the iteration order
MapInsert(m, k, v) == Append(MapRemove(m, k), <<k, v>>)

----------------------------------------------------------------------------
(* parse_header_payload                                                     *)

OTHER_KEY == <<"V", "a", "l", "u", "e">>

\* the local variables of the scan loop
PayloadStart ==
    [state |-> "Key", enclosing_char |-> "_", key_start |-> 0, key_end |-> 0,
     value_start |-> 0, previous_ch |-> "_", result |-> <<>>]

Continue(st) == [tag |-> "Continue", kind |-> "", val |-> st]

\* key = value is complete: both slices are taken, then checked, then stored
PayloadInsert(payload, st, key, value, next) ==
    IF IsPanic(key) THEN key
    ELSE IF IsPanic(value) THEN value
    ELSE IF key.val = <<>> THEN Err("empty key")
    ELSE IF value.val = <<>> THEN Err("empty value")
    ELSE Continue([next EXCEPT
                       !.result = MapInsert(st.result, key.val, value.val)])

\* PayloadParseState::Key
PayloadKey(payload, ch_idx, ch, st) ==
    IF ch = "="
    THEN Continue([st EXCEPT !.key_end = ch_idx,
                             !.value_start = ch_idx + Utf8Len(ch),
                             !.state = "Value"])
    ELSE Continue(st)

\* PayloadParseState::Value
PayloadValue(payload, ch_idx, ch, st) ==
    IF ch = "," \/ ch_idx = ByteLen(payload) - 1
    THEN PayloadInsert(payload, st,
             ByteSlice(payload, st.key_start, st.key_end),
             IF ch = ","
             THEN ByteSlice(payload, st.value_start, ch_idx)
             ELSE ByteSliceFrom(payload, st.value_start),
             [st EXCEPT !.key_start = ch_idx + Utf8Len(ch), !.state = "Key"])
    ELSE IF ch = "\"" \/ ch = "["
    THEN IF ch_idx # st.value_start
         THEN Err("invalid character found")
         ELSE Continue([st EXCEPT !.value_start = ch_idx + Utf8Len(ch),
                                  !.previous_ch = "_",
                                  !.state = "EnclosedValue",
                                  !.enclosing_char = ch])
    ELSE Continue(st)

\* an enclosed value in which every backslash escapes the next quote,
\* whatever precedes the backslash
PayloadEnclosedValue_any_backslash(payload, ch_idx, ch, st) ==
    IF \/ (st.enclosing_char = "\"" /\ ch = "\"" /\ st.previous_ch # "\\")
       \/ (st.enclosing_char = "[" /\ ch = "]")
    THEN PayloadInsert(payload, st,
             ByteSlice(payload, st.key_start, st.key_end),
             ByteSlice(payload, st.value_start, ch_idx),
             [st EXCEPT !.state = "QuoteEnded"])
    ELSE Continue([st EXCEPT !.previous_ch = ch])

\* PayloadParseState::EnclosedValue(enclosing_char)
PayloadEnclosedValue(payload, ch_idx, ch, st) ==
    IF \/ (st.enclosing_char = "\"" /\ ch = "\"" /\ st.previous_ch # "\\")
       \/ (st.enclosing_char = "[" /\ ch = "]")
    THEN PayloadInsert(payload, st,
             ByteSlice(payload, st.key_start, st.key_end),
             ByteSlice(payload, st.value_start, ch_idx),
             [st EXCEPT !.state = "QuoteEnded"])
    ELSE IF ch = "\\" /\ st.previous_ch = "\\"
    THEN Continue([st EXCEPT !.previous_ch = "_"])
    ELSE Continue([st EXCEPT !.previous_ch = ch])

\* PayloadParseState::QuoteEnded
PayloadQuoteEnded(payload, ch_idx, ch, st) ==
    IF ch = ","
    THEN Continue([st EXCEPT !.state = "Key",
                             !.key_start = ch_idx + Utf8Len(ch)])
    ELSE Err("non-comma character found after closing quote")

\* one iteration of the loop over payload.chars().enumerate()
PayloadStep(payload, ch_idx, st) ==
    LET ch == payload[ch_idx + 1]
    IN  CASE st.state = "Key" -> PayloadKey(payload, ch_idx, ch, st)
          [] st.state = "Value" -> PayloadValue(payload, ch_idx, ch, st)
          [] st.state = "EnclosedValue" ->
                 PayloadEnclosedValue(payload, ch_idx, ch, st)
          [] st.state = "QuoteEnded" ->
                 PayloadQuoteEnded(payload, ch_idx, ch, st)

\* the checks after the loop
PayloadEnd(st) ==
    IF st.state = "Value" THEN Err("empty value")
    ELSE IF st.state = "EnclosedValue" THEN Err("unbalanced quote")
    ELSE Ok(st.result)

RECURSIVE PayloadScan(_, _, _, _)
\* the iterations ch_idx = lo..hi in order, stopping at the first return;
\* the range is halved to keep the evaluation shallow
PayloadScan(payload, lo, hi, st) ==
    IF lo > hi THEN Continue(st)
    ELSE IF lo = hi THEN PayloadStep(payload, lo, st)
    ELSE LET mid == (lo + hi) \div 2
             left == PayloadScan(payload, lo, mid, st)
         IN  IF left.tag = "Continue"
             THEN PayloadScan(payload, mid + 1, hi, left.val)
             ELSE left

\* the whole loop and the checks after it
PayloadLoop(payload, st) ==
    LET r == PayloadScan(payload, 0, Len(payload) - 1, st)
    IN  IF r.tag = "Continue" THEN PayloadEnd(r.val) ELSE r

\* the payload without its triangle brackets, or the error
StripTriangle(payload) ==
    IF StartsWith(payload, <<"<">>) \/ EndsWith(payload, <<">">>)
    THEN IF ~StartsWith(payload, <<"<">>) \/ ~EndsWith(payload, <<">">>)
         THEN Err("unbalanced triangle brackets")
         ELSE ByteSlice(payload, 1, ByteLen(payload) - 1)
    ELSE Ok(payload)

parse_header_payload(payload) ==
    LET inner == StripTriangle(payload)
    IN  IF ~IsOk(inner) THEN inner
        ELSE IF inner.val = <<>> THEN Err("empty")
        ELSE IF Find(inner.val, "=") = 0
        THEN Ok(MapInsert(<<>>, OTHER_KEY, inner.val))
        ELSE PayloadLoop(inner.val, PayloadStart)

----------------------------------------------------------------------------
(* Byte order of text and decimal numbers.                                  *)

\* the characters of the model in the order of their UTF-8 encodings
CharOrder ==
    <<"\t", "\n", "\r", " ", "\"", "#", "+", ",", "-", ".", "/",
      "0", "1", "2", "3", "4", "5", "6", "7", "8", "9",
      ":", ";", "<", "=", ">",
      "A", "B", "C", "D", "E", "F", "G", "H", "I", "J", "K", "L", "M",
      "N", "O", "P", "Q", "R", "S", "T", "U", "V", "W", "X", "Y", "Z",
      "[", "\\", "]", "_",
      "a", "b", "c", "d", "e", "f", "g", "h", "i", "j", "k", "l", "m",
      "n", "o", "p", "q", "r", "s", "t", "u", "v", "w", "x", "y", "z",
      MultiByte>>

CharCode(ch) == CHOOSE i \in 1..Len(CharOrder) : CharOrder[i] = ch

\* Ord for str: lexicographic by bytes
TextLess(s, t) ==
    \/ Len(s) < Len(t) /\ SubSeq(t, 1, Len(s)) = s
    \/ \E i \in 1..Len(s) :
           /\ i <= Len(t)
           /\ SubSeq(s, 1, i - 1) = SubSeq(t, 1, i - 1)
           /\ s[i] # t[i]
           /\ CharCode(s[i]) < CharCode(t[i])

Digits == {"0", "1", "2", "3", "4", "5", "6", "7", "8", "9"}

\* the digits without leading zeros, one digit at least
StripZeros(s) ==
    IF \A i \in 1..Len(s) : s[i] = "0" THEN <<"0">>
    ELSE Drop(s, CHOOSE i \in 1..Len(s) :
                     s[i] # "0" /\ \A j \in 1..(i - 1) : s[j] = "0")

U32_MAX == <<"4", "2", "9", "4", "9", "6", "7", "2", "9", "5">>

U64_MAX == <<"1", "8", "4", "4", "6", "7", "4", "4", "0", "7", "3", "7", "0", "9", "5", "5", "1", "6", "1", "5">>

\* str::parse for an unsigned integer type with maximum max: an optional
\* "+", then at least one digit, no overflow.  The value is kept as its
\* decimal digits without leading zeros, which is also its Display.
ParseUnsigned(s, max) ==
    LET body == IF s # <<>> /\ Head(s) = "+" THEN Tail(s) ELSE s
        canon == StripZeros(body)
    IN  IF body = <<>> THEN Err("cannot parse integer from empty string")
        ELSE IF \E i \in 1..Len(body) : body[i] \notin Digits
        THEN Err("invalid digit found in string")
        ELSE IF \/ Len(canon) > Len(max)
                \/ (Len(canon) = Len(max) /\ TextLess(max, canon))
        THEN Err("number too large to fit in target type")
        ELSE Ok(canon)

----------------------------------------------------------------------------
(* Header value types: Number, InfoType, FormatType, AltId, PedigreeType    *)

\* an Option<&str> taken from the payload map
get(map, key) == MapGet(map, key)

\* get_map_value
get_map_value(map, key) ==
    IF MapContainsKey(map, key) THEN Ok(MapGet(map, key).val)
    ELSE Err("value not found in map")

\* a Number that must be written: an absent key is an error
Number_new_required(number_str) ==
    IF number_str.tag = "None" THEN Err("invalid Number value")
    ELSE LET n == ParseUnsigned(number_str.val, U32_MAX)
         IN  IF number_str.val \in {<<"A">>, <<"G">>, <<"R">>, <<".">>}
             THEN Ok([number |-> CASE number_str.val = <<"A">> -> "Allele"
                                   [] number_str.val = <<"G">> -> "Genotype"
                                   [] number_str.val = <<"R">> -> "Reference"
                                   [] OTHER -> "Unknown",
                      n |-> <<>>])
             ELSE IF IsErr(n) THEN Err("invalid Number value")
             ELSE Ok([number |-> "Integer", n |-> n.val])

\* Number::new; Number::Integer(n) keeps n as its decimal digits
Number_new(number_str) ==
    IF number_str.tag = "None" THEN Ok([number |-> "Unknown", n |-> <<>>])
    ELSE LET s == number_str.val
         IN  IF s = <<"A">> THEN Ok([number |-> "Allele", n |-> <<>>])
             ELSE IF s = <<"G">> THEN Ok([number |-> "Genotype", n |-> <<>>])
             ELSE IF s = <<"R">> THEN Ok([number |-> "Reference", n |-> <<>>])
             ELSE IF s = <<".">> THEN Ok([number |-> "Unknown", n |-> <<>>])
             ELSE LET n == ParseUnsigned(s, U32_MAX)
                  IN  IF IsErr(n) THEN Err("invalid Number value")
                      ELSE Ok([number |-> "Integer", n |-> n.val])

\* impl Display for Number
Number_fmt(number) ==
    CASE number.number = "Allele" -> <<"A">>
      [] number.number = "Genotype" -> <<"G">>
      [] number.number = "Reference" -> <<"R">>
      [] number.number = "Unknown" -> <<".">>
      [] number.number = "Integer" -> number.n

InfoTypeNames == {<<"C", "h", "a", "r", "a", "c", "t", "e", "r">>, <<"F", "l", "a", "g">>, <<"F", "l", "o", "a", "t">>, <<"I", "n", "t", "e", "g", "e", "r">>, <<"S", "t", "r", "i", "n", "g">>}

\* InfoType::new; a variant is kept as its name
InfoType_new(type_str) ==
    IF type_str.tag = "None" THEN Ok(<<"S", "t", "r", "i", "n", "g">>)
    ELSE IF type_str.val \in InfoTypeNames THEN Ok(type_str.val)
    ELSE Err("invalid InfoType value")

\* impl Display for InfoType
InfoType_fmt(typ) == typ

FormatTypeNames == {<<"C", "h", "a", "r", "a", "c", "t", "e", "r">>, <<"F", "l", "o", "a", "t">>, <<"I", "n", "t", "e", "g", "e", "r">>, <<"S", "t", "r", "i", "n", "g">>}

\* FormatType::new
FormatType_new(type_str) ==
    IF type_str.tag = "None" THEN Ok(<<"S", "t", "r", "i", "n", "g">>)
    ELSE IF type_str.val \in FormatTypeNames THEN Ok(type_str.val)
    ELSE Err("invalid FormatType value")

\* impl Display for FormatType
FormatType_fmt(typ) == typ

AltIdNames == {<<"D", "E", "L">>, <<"I", "N", "S">>, <<"D", "U", "P">>, <<"I", "N", "V">>, <<"C", "N", "V">>, <<"B", "N", "D">>}

\* AltId::new
AltId_new(id_str) ==
    IF id_str = <<>> THEN Err("invalid AltId, empty value")
    ELSE IF id_str \in AltIdNames THEN Ok([alt |-> id_str, s |-> <<>>])
    ELSE Ok([alt |-> <<"O", "t", "h", "e", "r">>, s |-> id_str])

\* AltId::new_alt_ids: every token is unwrapped
new_alt_ids(ids_str) ==
    LET tokens == Split(ids_str, ":")
        made == [i \in 1..Len(tokens) |-> AltId_new(tokens[i])]
    IN  IF \E i \in 1..Len(made) : IsErr(made[i])
        THEN Panic("called Result::unwrap() on an Err value")
        ELSE Ok([i \in 1..Len(made) |-> made[i].val])

\* impl Display for AltId
AltId_fmt(v) == IF v.alt = <<"O", "t", "h", "e", "r">> THEN v.s ELSE v.alt

RECURSIVE SortEntries(_)
\* Vec<(&str, &str)>::sort of the entries of a map (keys pairwise distinct)
SortEntries(m) ==
    IF m = <<>> THEN <<>>
    ELSE LET least == CHOOSE i \in 1..Len(m) :
                          \A j \in 1..Len(m) :
                              j = i \/ TextLess(m[i][1], m[j][1])
         IN  <<m[least]>> \o SortEntries(MapRemove(m, m[least][1]))

\* the relation with the ancestors taken in the order written
PedigreeType_new_unsorted(pedigree_map) ==
    IF MapContainsKey(pedigree_map, <<"O", "r", "i", "g", "i", "n", "a", "l">>)
    THEN LET o == get_map_value(pedigree_map, <<"O", "r", "i", "g", "i", "n", "a", "l">>)
         IN  IF IsErr(o) THEN o
             ELSE Ok([relation |-> "Original", ids |-> <<o.val>>])
    ELSE IF \/ MapContainsKey(pedigree_map, <<"F", "a", "t", "h", "e", "r">>)
            \/ MapContainsKey(pedigree_map, <<"M", "o", "t", "h", "e", "r">>)
    THEN LET f == get_map_value(pedigree_map, <<"F", "a", "t", "h", "e", "r">>)
             m == get_map_value(pedigree_map, <<"M", "o", "t", "h", "e", "r">>)
         IN  IF IsErr(f) THEN f
             ELSE IF IsErr(m) THEN m
             ELSE Ok([relation |-> "Parents", ids |-> <<f.val, m.val>>])
    ELSE IF MapContainsKey(pedigree_map, <<"N", "a", "m", "e", "_", "1">>)
    THEN LET kv_entries == pedigree_map
             named == SelectSeq(kv_entries, LAMBDA e : e[1] # <<"I", "D">>)
         IN  IF \E i \in 1..Len(named) : ~StartsWith(named[i][1], <<"N", "a", "m", "e", "_">>)
             THEN Err("invalid pedigree type name")
             ELSE Ok([relation |-> "Ancestors",
                      ids |-> [i \in 1..Len(named) |-> named[i][2]]])
    ELSE Err("invalid pedigree type")

\* PedigreeType::new
PedigreeType_new(pedigree_map) ==
    IF MapContainsKey(pedigree_map, <<"O", "r", "i", "g", "i", "n", "a", "l">>)
    THEN LET o == get_map_value(pedigree_map, <<"O", "r", "i", "g", "i", "n", "a", "l">>)
         IN  IF IsErr(o) THEN o
             ELSE Ok([relation |-> "Original", ids |-> <<o.val>>])
    ELSE IF \/ MapContainsKey(pedigree_map, <<"F", "a", "t", "h", "e", "r">>)
            \/ MapContainsKey(pedigree_map, <<"M", "o", "t", "h", "e", "r">>)
    THEN LET f == get_map_value(pedigree_map, <<"F", "a", "t", "h", "e", "r">>)
             m == get_map_value(pedigree_map, <<"M", "o", "t", "h", "e", "r">>)
         IN  IF IsErr(f) THEN f
             ELSE IF IsErr(m) THEN m
             ELSE Ok([relation |-> "Parents", ids |-> <<f.val, m.val>>])
    ELSE IF MapContainsKey(pedigree_map, <<"N", "a", "m", "e", "_", "1">>)
    THEN LET kv_entries == SortEntries(pedigree_map)
             named == SelectSeq(kv_entries, LAMBDA e : e[1] # <<"I", "D">>)
         IN  IF \E i \in 1..Len(named) : ~StartsWith(named[i][1], <<"N", "a", "m", "e", "_">>)
             THEN Err("invalid pedigree type name")
             ELSE Ok([relation |-> "Ancestors",
                      ids |-> [i \in 1..Len(named) |-> named[i][2]]])
    ELSE Err("invalid pedigree type")

\* the decimal digits of a small index (usize Display)
IndexDigits(i) ==
    IF i < 10 THEN <<CharOrder[CharCode("0") + i]>>
    ELSE <<CharOrder[CharCode("0") + (i \div 10)],
           CharOrder[CharCode("0") + (i % 10)]>>

\* impl Display for PedigreeType
PedigreeType_fmt(relation) ==
    CASE relation.relation = "Original" -> <<"O", "r", "i", "g", "i", "n", "a", "l", "=">> \o relation.ids[1]
      [] relation.relation = "Parents" ->
             <<"F", "a", "t", "h", "e", "r", "=">> \o relation.ids[1] \o <<",", "M", "o", "t", "h", "e", "r", "=">> \o relation.ids[2]
      [] relation.relation = "Ancestors" ->
             Concat([i \in 1..Len(relation.ids) |->
                        <<"N", "a", "m", "e", "_">> \o IndexDigits(i - 1) \o <<"=">>
                            \o relation.ids[i]])

----------------------------------------------------------------------------
(* HeaderLine: FromStr and Display                                          *)

\* the map entries whose key is not in skip, in iteration order
OtherEntries(map, skip) == SelectSeq(map, LAMBDA e : e[1] \notin skip)

\* Option<String> of an optional key
Optional(map, key) == MapGet(map, key)

Alt_from(payload_parts) ==
    LET ids_str == get_map_value(payload_parts, <<"I", "D">>)
        id == IF IsOk(ids_str) THEN new_alt_ids(ids_str.val) ELSE ids_str
        description == get_map_value(payload_parts, <<"D", "e", "s", "c", "r", "i", "p", "t", "i", "o", "n">>)
    IN  IF IsErr(ids_str) THEN Err("value not found")
        ELSE IF ~IsOk(id) THEN id
        ELSE IF IsErr(description) THEN description
        ELSE Ok([variant |-> "Alt", id |-> id.val,
                 description |-> description.val])

Single_from(variant, payload_parts) ==
    LET s == get_map_value(payload_parts, OTHER_KEY)
    IN  IF IsErr(s) THEN s ELSE Ok([variant |-> variant, s |-> s.val])

Contig_from(payload_parts) ==
    LET id == get_map_value(payload_parts, <<"I", "D">>)
    IN  IF IsErr(id) THEN id
        ELSE Ok([variant |-> "Contig", id |-> id.val,
                 species |-> Optional(payload_parts, <<"s", "p", "e", "c", "i", "e", "s">>),
                 other |-> OtherEntries(payload_parts,
                                        {<<"I", "D">>, <<"s", "p", "e", "c", "i", "e", "s">>})])

Filter_from(payload_parts) ==
    LET id == get_map_value(payload_parts, <<"I", "D">>)
        description == get_map_value(payload_parts, <<"D", "e", "s", "c", "r", "i", "p", "t", "i", "o", "n">>)
    IN  IF IsErr(id) THEN id
        ELSE IF IsErr(description) THEN description
        ELSE Ok([variant |-> "Filter", id |-> id.val,
                 description |-> description.val])

Format_from(payload_parts) ==
    LET id == get_map_value(payload_parts, <<"I", "D">>)
        number == Number_new(get(payload_parts, <<"N", "u", "m", "b", "e", "r">>))
        typ == FormatType_new(get(payload_parts, <<"T", "y", "p", "e">>))
        description == get_map_value(payload_parts, <<"D", "e", "s", "c", "r", "i", "p", "t", "i", "o", "n">>)
    IN  IF IsErr(id) THEN id
        ELSE IF IsErr(number) THEN number
        ELSE IF IsErr(typ) THEN typ
        ELSE IF IsErr(description) THEN description
        ELSE Ok([variant |-> "Format", id |-> id.val, number |-> number.val,
                 typ |-> typ.val, description |-> description.val])

Info_from(payload_parts) ==
    LET id == get_map_value(payload_parts, <<"I", "D">>)
        number == Number_new(get(payload_parts, <<"N", "u", "m", "b", "e", "r">>))
        typ == InfoType_new(get(payload_parts, <<"T", "y", "p", "e">>))
        description == get_map_value(payload_parts, <<"D", "e", "s", "c", "r", "i", "p", "t", "i", "o", "n">>)
    IN  IF IsErr(id) THEN id
        ELSE IF IsErr(number) THEN number
        ELSE IF IsErr(typ) THEN typ
        ELSE IF IsErr(description) THEN description
        ELSE Ok([variant |-> "Info", id |-> id.val, number |-> number.val,
                 typ |-> typ.val, description |-> description.val,
                 source |-> Optional(payload_parts, <<"S", "o", "u", "r", "c", "e">>),
                 version |-> Optional(payload_parts, <<"V", "e", "r", "s", "i", "o", "n">>)])

\* the Values list of a META line: split on commas, each entry trimmed
MetaValues(value_string) ==
    LET entries == Split(value_string, ",")
    IN  [i \in 1..Len(entries) |-> Trim(entries[i])]

Meta_from(payload_parts) ==
    LET id == get_map_value(payload_parts, <<"I", "D">>)
        typ == get_map_value(payload_parts, <<"T", "y", "p", "e">>)
        number == Number_new(get(payload_parts, <<"N", "u", "m", "b", "e", "r">>))
        value_string == get(payload_parts, <<"V", "a", "l", "u", "e", "s">>)
    IN  IF IsErr(id) THEN id
        ELSE IF IsErr(typ) THEN typ
        ELSE IF IsErr(number) THEN number
        ELSE IF value_string.tag = "None"
        THEN Panic("called Option::unwrap() on a None value")
        ELSE Ok([variant |-> "Meta", id |-> id.val, typ |-> typ.val,
                 number |-> number.val,
                 values |-> MetaValues(value_string.val)])

Pedigree_from(payload_parts) ==
    LET id == get_map_value(payload_parts, <<"I", "D">>)
        relation == PedigreeType_new(payload_parts)
    IN  IF IsErr(id) THEN id
        ELSE IF IsErr(relation) THEN relation
        ELSE Ok([variant |-> "Pedigree", id |-> id.val,
                 relation |-> relation.val])

Sample_from(payload_parts) ==
    LET id == get_map_value(payload_parts, <<"I", "D">>)
        description == get_map_value(payload_parts, <<"D", "e", "s", "c", "r", "i", "p", "t", "i", "o", "n">>)
        rest == OtherEntries(payload_parts,
                             {<<"I", "D">>, <<"D", "e", "s", "c", "r", "i", "p", "t", "i", "o", "n">>, <<"D", "O", "I">>})
    IN  IF IsErr(id) THEN id
        ELSE IF IsErr(description) THEN description
        ELSE Ok([variant |-> "Sample", id |-> id.val,
                 meta |-> [i \in 1..Len(rest) |->
                              <<rest[i][1], Split(rest[i][2], ";")>>],
                 description |-> description.val,
                 doi |-> Optional(payload_parts, <<"D", "O", "I">>)])

Other_from(header_type, payload_parts) ==
    LET value == get_map_value(payload_parts, OTHER_KEY)
    IN  IF IsErr(value) THEN value
        ELSE Ok([variant |-> "Other", key |-> header_type,
                 value |-> value.val])

\* the match on header_type
HeaderLine_dispatch(header_type, payload_parts) ==
    CASE header_type = <<"A", "L", "T">> -> Alt_from(payload_parts)
      [] header_type = <<"a", "s", "s", "e", "m", "b", "l", "y">> -> Single_from("Assembly", payload_parts)
      [] header_type = <<"c", "o", "n", "t", "i", "g">> -> Contig_from(payload_parts)
      [] header_type = <<"f", "i", "l", "e", "D", "a", "t", "e">> -> Single_from("FileDate", payload_parts)
      [] header_type = <<"F", "I", "L", "T", "E", "R">> -> Filter_from(payload_parts)
      [] header_type = <<"F", "O", "R", "M", "A", "T">> -> Format_from(payload_parts)
      [] header_type = <<"I", "N", "F", "O">> -> Info_from(payload_parts)
      [] header_type = <<"M", "E", "T", "A">> -> Meta_from(payload_parts)
      [] header_type = <<"P", "E", "D", "I", "G", "R", "E", "E">> -> Pedigree_from(payload_parts)
      [] header_type = <<"p", "e", "d", "i", "g", "r", "e", "e", "D", "B">> ->
             Single_from("PedigreeDB", payload_parts)
      [] header_type = <<"S", "A", "M", "P", "L", "E">> -> Sample_from(payload_parts)
      [] OTHER -> Other_from(header_type, payload_parts)

\* impl FromStr for HeaderLine
HeaderLine_from_str(header_line_str) ==
    LET eq_index == Find(header_line_str, "=")
        header_type == SubSeq(header_line_str, 1, eq_index - 1)
        header_payload == Drop(header_line_str, eq_index + 1)
        payload_parts == parse_header_payload(header_payload)
    IN  IF eq_index = 0 THEN Err("header lines must contain an = sign")
        ELSE IF ~StartsWith(header_type, <<"#", "#">>)
        THEN Err("header lines must start with ##")
        ELSE IF ~IsOk(payload_parts) THEN payload_parts
        ELSE HeaderLine_dispatch(Drop(header_type, 3), payload_parts.val)

\* Option<String> formatted with a prefix and a suffix, nothing for None
OptionalClause(prefix, option, suffix) ==
    IF option.tag = "Some" THEN prefix \o option.val \o suffix ELSE <<>>

Alt_fmt(hl) ==
    <<"#", "#", "A", "L", "T", "=", "<", "I", "D", "=">>
        \o Join([i \in 1..Len(hl.id) |-> AltId_fmt(hl.id[i])], <<":">>)
        \o <<",", "D", "e", "s", "c", "r", "i", "p", "t", "i", "o", "n", "=", "\"">> \o hl.description \o <<"\"", ">">>

Contig_fmt(hl) ==
    <<"#", "#", "c", "o", "n", "t", "i", "g", "=", "<", "I", "D", "=">> \o hl.id
        \o OptionalClause(<<",", "s", "p", "e", "c", "i", "e", "s", "=", "\"">>, hl.species, <<"\"">>)
        \o Concat([i \in 1..Len(hl.other) |->
                      <<",">> \o hl.other[i][1] \o <<"=">> \o hl.other[i][2]])
        \o <<">">>

Filter_fmt(hl) ==
    <<"#", "#", "F", "I", "L", "T", "E", "R", "=", "<", "I", "D", "=">> \o hl.id \o <<",", "D", "e", "s", "c", "r", "i", "p", "t", "i", "o", "n", "=", "\"">> \o hl.description
        \o <<"\"", ">">>

Format_fmt(hl) ==
    <<"#", "#", "F", "O", "R", "M", "A", "T", "=", "<", "I", "D", "=">> \o hl.id \o <<",", "N", "u", "m", "b", "e", "r", "=">> \o Number_fmt(hl.number)
        \o <<",", "T", "y", "p", "e", "=">> \o FormatType_fmt(hl.typ)
        \o <<",", "D", "e", "s", "c", "r", "i", "p", "t", "i", "o", "n", "=", "\"">> \o hl.description \o <<"\"", ">">>

Info_fmt(hl) ==
    <<"#", "#", "I", "N", "F", "O", "=", "<", "I", "D", "=">> \o hl.id \o <<",", "N", "u", "m", "b", "e", "r", "=">> \o Number_fmt(hl.number)
        \o <<",", "T", "y", "p", "e", "=">> \o InfoType_fmt(hl.typ)
        \o <<",", "D", "e", "s", "c", "r", "i", "p", "t", "i", "o", "n", "=", "\"">> \o hl.description \o <<"\"">>
        \o OptionalClause(<<",", "S", "o", "u", "r", "c", "e", "=", "\"">>, hl.source, <<"\"">>)
        \o OptionalClause(<<",", "V", "e", "r", "s", "i", "o", "n", "=", "\"">>, hl.version, <<"\"">>)
        \o <<">">>

\* the Values clause is written when the list is empty
Meta_fmt(hl) ==
    <<"#", "#", "M", "E", "T", "A", "=", "<", "I", "D", "=">> \o hl.id \o <<",", "T", "y", "p", "e", "=">> \o hl.typ
        \o <<",", "N", "u", "m", "b", "e", "r", "=">> \o Number_fmt(hl.number)
        \o (IF hl.values = <<>>
            THEN <<",", "V", "a", "l", "u", "e", "s", "=", "[">> \o Join(hl.values, <<",">>) \o <<"]">>
            ELSE <<>>)
        \o <<">">>

\* the PEDIGREE line written without its ID
Pedigree_fmt_without_id(hl) ==
    <<"#", "#", "P", "E", "D", "I", "G", "R", "E", "E", "=", "<">>
        \o PedigreeType_fmt(hl.relation) \o <<">">>

Pedigree_fmt(hl) ==
    <<"#", "#", "P", "E", "D", "I", "G", "R", "E", "E", "=", "<", "I", "D", "=">> \o hl.id \o <<",">> \o PedigreeType_fmt(hl.relation)
        \o <<">">>

Sample_fmt(hl) ==
    <<"#", "#", "S", "A", "M", "P", "L", "E", "=", "<", "I", "D", "=">> \o hl.id
        \o Concat([i \in 1..Len(hl.meta) |->
                      <<",">> \o hl.meta[i][1] \o <<"=">>
                          \o Join(hl.meta[i][2], <<";">>)])
        \o <<",", "D", "e", "s", "c", "r", "i", "p", "t", "i", "o", "n", "=", "\"">> \o hl.description \o <<"\"">>
        \o OptionalClause(<<",", "D", "O", "I", "=">>, hl.doi, <<>>)
        \o <<">">>

\* impl Display for HeaderLine
HeaderLine_fmt(hl) ==
    CASE hl.variant = "Alt" -> Alt_fmt(hl)
      [] hl.variant = "Assembly" -> <<"#", "#", "a", "s", "s", "e", "m", "b", "l", "y", "=">> \o hl.s
      [] hl.variant = "Contig" -> Contig_fmt(hl)
      [] hl.variant = "FileDate" -> <<"#", "#", "f", "i", "l", "e", "D", "a", "t", "e", "=">> \o hl.s
      [] hl.variant = "Filter" -> Filter_fmt(hl)
      [] hl.variant = "Format" -> Format_fmt(hl)
      [] hl.variant = "Info" -> Info_fmt(hl)
      [] hl.variant = "Meta" -> Meta_fmt(hl)
      [] hl.variant = "Pedigree" -> Pedigree_fmt(hl)
      [] hl.variant = "PedigreeDB" -> <<"#", "#", "p", "e", "d", "i", "g", "r", "e", "e", "D", "B", "=">> \o hl.s
      [] hl.variant = "Other" -> <<"#", "#">> \o hl.key \o <<"=">> \o hl.value
      [] hl.variant = "Sample" -> Sample_fmt(hl)

\* PartialEq for HeaderLine
HeaderLine_eq(a, b) == a.variant = b.variant /\ a = b

----------------------------------------------------------------------------
(* Preamble parsers                                                         *)

VERSION_PREFIX == <<"#", "#", "f", "i", "l", "e", "f", "o", "r", "m", "a", "t", "=">>

\* parse_version
parse_version(version_line) ==
    IF ~StartsWith(version_line, VERSION_PREFIX)
    THEN Err("invalid version line")
    ELSE Ok(Drop(version_line, Len(VERSION_PREFIX) + 1))

\* impl Display for Version
Version_fmt(version) == VERSION_PREFIX \o version

COLUMNS_PREFIX == <<"#", "C", "H", "R", "O", "M", "\t", "P", "O", "S", "\t", "I", "D", "\t", "R", "E", "F", "\t", "A", "L", "T", "\t", "Q", "U", "A", "L", "\t", "F", "I", "L", "T", "E", "R", "\t", "I", "N", "F", "O">>

FORMAT_PREFIX == <<"F", "O", "R", "M", "A", "T">>

\* whether the values of a sequence are pairwise distinct
Unique(columns) ==
    \A i, j \in 1..Len(columns) : columns[i] = columns[j] => i = j

\* parse_column_names
parse_column_names(column_line) ==
    LET remaining_line == Trim(Drop(column_line, Len(COLUMNS_PREFIX) + 1))
        names_line == Trim(Drop(remaining_line, Len(FORMAT_PREFIX) + 1))
        columns == Split(names_line, "\t")
    IN  IF ~StartsWith(column_line, COLUMNS_PREFIX)
        THEN Err("columns line should start with the fixed columns")
        ELSE IF remaining_line = <<>> THEN Ok(<<>>)
        ELSE IF ~StartsWith(remaining_line, FORMAT_PREFIX)
        THEN Err("unexpected column name after INFO")
        ELSE IF ~Unique(columns)
        THEN Err("sample column names must be unique")
        ELSE Ok(columns)

----------------------------------------------------------------------------
(* DataLine: new, format_index and Display                                  *)

FIXED_COLUMNS ==
    <<<<"C", "H", "R", "O", "M">>, <<"P", "O", "S">>, <<"I", "D">>, <<"R", "E", "F">>, <<"A", "L", "T">>, <<"Q", "U", "A", "L">>, <<"F", "I", "L", "T", "E", "R">>,
      <<"I", "N", "F", "O">>>>

Missing == [kind |-> "Missing", entries |-> <<>>]

\* the FromStr shared by IdType, AltType, InfoType, FormatType and
\* SampleType: empty is an error, "." is Missing, the rest is split
Entries_from_str(str, delimiter, what) ==
    IF str = <<>> THEN Err(what)
    ELSE IF str = <<".">> THEN Ok(Missing)
    ELSE Ok([kind |-> "Entries", entries |-> Split(str, delimiter)])

\* the Display shared by the same types
Entries_fmt(v, delimiter) ==
    IF v.kind = "Missing" THEN <<".">>
    ELSE IF v.kind = "Pass" THEN <<"P", "A", "S", "S">>
    ELSE Join(v.entries, <<delimiter>>)

IdType_from_str(id_str) == Entries_from_str(id_str, ";", "id cannot be empty")

AltType_from_str(alt_str) ==
    Entries_from_str(alt_str, ",", "alt cannot be empty")

\* impl FromStr for QualType; Integer(n) keeps n as its decimal digits
QualType_from_str(qual_str) ==
    IF qual_str = <<>> THEN Err("qual cannot be empty")
    ELSE IF qual_str = <<".">> THEN Ok([kind |-> "Missing", n |-> <<>>])
    ELSE LET n == ParseUnsigned(qual_str, U32_MAX)
         IN  IF IsErr(n) THEN n ELSE Ok([kind |-> "Integer", n |-> n.val])

\* impl Display for QualType
QualType_fmt(v) == IF v.kind = "Missing" THEN <<".">> ELSE v.n

\* impl FromStr for FilterType
FilterType_from_str(filter_str) ==
    IF filter_str = <<"P", "A", "S", "S">> THEN Ok([kind |-> "Pass", entries |-> <<>>])
    ELSE Entries_from_str(filter_str, ";", "filter cannot be empty")

InfoField_from_str(info_str) ==
    Entries_from_str(info_str, ";", "info cannot be empty")

FormatField_from_str(format_str) ==
    Entries_from_str(format_str, ":", "format cannot be empty")

\* the samples taken from the last column to the first
SampleType_new_reversed(sample_vec) ==
    LET n == Len(sample_vec)
        made == [i \in 1..n |->
                    Entries_from_str(sample_vec[n + 1 - i], ":",
                                     "sample cannot be empty")]
    IN  IF \E i \in 1..n : IsErr(made[i])
        THEN Err("sample cannot be empty")
        ELSE Ok([i \in 1..n |-> made[i].val])

\* SampleType::new: stops at the first empty sample
SampleType_new(sample_vec) ==
    LET made == [i \in 1..Len(sample_vec) |->
                    Entries_from_str(sample_vec[i], ":",
                                     "sample cannot be empty")]
    IN  IF \E i \in 1..Len(made) : IsErr(made[i])
        THEN Err("sample cannot be empty")
        ELSE Ok([i \in 1..Len(made) |-> made[i].val])

\* the count without the FORMAT column
expected_len_without_format(column_names) ==
    Len(FIXED_COLUMNS) + Len(column_names)

\* the number of columns a data line must have
expected_len(column_names) ==
    IF column_names # <<>>
    THEN Len(FIXED_COLUMNS) + Len(column_names) + 1
    ELSE Len(FIXED_COLUMNS)

\* the struct literal of DataLine::new: the fields are parsed in order and
\* the first error is returned
DataLine_fields(parts, format, samples) ==
    LET position == ParseUnsigned(parts[2], U64_MAX)
        id == IdType_from_str(parts[3])
        alternative == AltType_from_str(parts[5])
        quality == QualType_from_str(parts[6])
        filter == FilterType_from_str(parts[7])
        info == InfoField_from_str(parts[8])
    IN  IF IsErr(position) THEN position
        ELSE IF IsErr(id) THEN id
        ELSE IF IsErr(alternative) THEN alternative
        ELSE IF IsErr(quality) THEN quality
        ELSE IF IsErr(filter) THEN filter
        ELSE IF IsErr(info) THEN info
        ELSE Ok([chromosome |-> parts[1], position |-> position.val,
                 id |-> id.val, reference |-> parts[4],
                 alternative |-> alternative.val, quality |-> quality.val,
                 filter |-> filter.val, info |-> info.val,
                 format |-> format, samples |-> samples])

\* DataLine::new
DataLine_new(line_str, column_names) ==
    LET parts == Split(line_str, "\t")
        expected == expected_len(column_names)
        format == IF expected > 8 THEN FormatField_from_str(parts[9])
                  ELSE Ok(None)
        samples == IF expected > 9
                   THEN SampleType_new(SubSeq(parts, 10, Len(parts)))
                   ELSE Ok(<<>>)
    IN  IF Len(parts) # expected
        THEN ErrWith("invalid number of columns found",
                     [expected |-> expected, found |-> Len(parts)])
        ELSE IF IsErr(format) THEN format
        ELSE IF IsErr(samples) THEN samples
        ELSE DataLine_fields(parts,
                             IF expected > 8 THEN Some(format.val) ELSE None,
                             samples.val)

\* the 1-based position of the first entry equal to entry, 0 when absent
Position(entries, entry) ==
    IF \E i \in 1..Len(entries) : entries[i] = entry
    THEN CHOOSE i \in 1..Len(entries) :
             entries[i] = entry /\ \A j \in 1..(i - 1) : entries[j] # entry
    ELSE 0

\* the index counted from the FORMAT column of the line
format_index_from_one(dl, entry) ==
    IF dl.format.tag = "Some" /\ dl.format.val.kind = "Entries"
       /\ Position(dl.format.val.entries, entry) # 0
    THEN Some(Position(dl.format.val.entries, entry))
    ELSE None

\* DataLine::format_index: Some(0-based index) or None
format_index(dl, entry) ==
    IF dl.format.tag = "Some" /\ dl.format.val.kind = "Entries"
       /\ Position(dl.format.val.entries, entry) # 0
    THEN Some(Position(dl.format.val.entries, entry) - 1)
    ELSE None

\* the line written with its format but without its samples
DataLine_fmt_without_samples(dl) ==
    dl.chromosome
        \o <<"\t">> \o dl.position
        \o <<"\t">> \o Entries_fmt(dl.id, ";")
        \o <<"\t">> \o dl.reference
        \o <<"\t">> \o Entries_fmt(dl.alternative, ",")
        \o <<"\t">> \o QualType_fmt(dl.quality)
        \o <<"\t">> \o Entries_fmt(dl.filter, ";")
        \o <<"\t">> \o Entries_fmt(dl.info, ";")
        \o (IF dl.format.tag = "Some"
            THEN <<"\t">> \o Entries_fmt(dl.format.val, ":")
            ELSE <<>>)

\* impl Display for DataLine
DataLine_fmt(dl) ==
    dl.chromosome
        \o <<"\t">> \o dl.position
        \o <<"\t">> \o Entries_fmt(dl.id, ";")
        \o <<"\t">> \o dl.reference
        \o <<"\t">> \o Entries_fmt(dl.alternative, ",")
        \o <<"\t">> \o QualType_fmt(dl.quality)
        \o <<"\t">> \o Entries_fmt(dl.filter, ";")
        \o <<"\t">> \o Entries_fmt(dl.info, ";")
        \o (IF dl.format.tag = "Some"
            THEN <<"\t">> \o Entries_fmt(dl.format.val, ":")
                 \o Concat([i \in 1..Len(dl.samples) |->
                               <<"\t">> \o Entries_fmt(dl.samples[i], ":")])
            ELSE <<>>)

----------------------------------------------------------------------------
(* VCFParser, VCFReader and VCFWriter                                       *)

\* BufRead::read_line on the part of the file not yet consumed: the line
\* with its "\n" if it has one, and the number of characters read (0 at
\* the end of the input)
read_line(bytes, consumed) ==
    LET rest == Drop(bytes, consumed + 1)
        nl == Find(rest, "\n")
    IN  IF nl = 0 THEN [read_bytes |-> Len(rest), line |-> rest]
        ELSE [read_bytes |-> nl, line |-> SubSeq(rest, 1, nl)]

\* if line.ends_with('\n') { line.pop(); }
remove_newline(line) ==
    IF EndsWith(line, <<"\n">>) THEN SubSeq(line, 1, Len(line) - 1) ELSE line

\* Header::new together with the reader's position
ParsedHeader(version, header_lines, column_names, consumed) ==
    Ok([version |-> version, header_lines |-> header_lines,
        column_names |-> column_names, consumed |-> consumed])

RECURSIVE HeaderLoop(_, _, _, _)
\* the loop of VCFParser::new, one line per iteration
HeaderLoop(bytes, consumed, version, header_lines) ==
    LET rl == read_line(bytes, consumed)
        line == remove_newline(rl.line)
        after == consumed + rl.read_bytes
        hl == HeaderLine_from_str(line)
        column_names == parse_column_names(line)
    IN  IF rl.read_bytes = 0
        THEN ParsedHeader(version, header_lines, <<>>, consumed)
        ELSE IF StartsWith(line, VERSION_PREFIX)
        THEN HeaderLoop(bytes, after, parse_version(line).val, header_lines)
        ELSE IF StartsWith(line, <<"#", "#">>)
        THEN IF IsOk(hl)
             THEN HeaderLoop(bytes, after, version,
                             Append(header_lines, hl.val))
             ELSE hl
        ELSE IF StartsWith(line, <<"#">>)
        THEN IF IsOk(column_names)
             THEN ParsedHeader(version, header_lines, column_names.val, after)
             ELSE column_names
        ELSE Err("Invalid line while parsing header")

\* the header with its header lines in reverse order
VCFParser_new_reversed(bytes) ==
    LET h == HeaderLoop(bytes, 0, <<>>, <<>>)
        n == Len(h.val.header_lines)
    IN  IF IsOk(h)
        THEN Ok([h.val EXCEPT !.header_lines =
                                  [i \in 1..n |-> h.val.header_lines[n + 1 - i]]])
        ELSE h

\* a constructor that fails when the input ends with no sample columns read
VCFParser_new_column_row_required(bytes) ==
    LET h == HeaderLoop(bytes, 0, <<>>, <<>>)
    IN  IF IsOk(h) /\ h.val.column_names = <<>> /\ h.val.consumed = Len(bytes)
        THEN Err("Invalid line while parsing header")
        ELSE h

\* VCFParser::new
VCFParser_new(bytes) == HeaderLoop(bytes, 0, <<>>, <<>>)

\* the item read without the reader moving on
next_item_in_place(bytes, consumed, column_names) ==
    LET rl == read_line(bytes, consumed)
    IN  IF rl.read_bytes = 0 THEN [item |-> None, consumed |-> consumed]
        ELSE [item |-> Some(DataLine_new(remove_newline(rl.line),
                                         column_names)),
              consumed |-> consumed]

\* VCFReader::next_item: the item and the reader's new position
next_item(bytes, consumed, column_names) ==
    LET rl == read_line(bytes, consumed)
    IN  IF rl.read_bytes = 0 THEN [item |-> None, consumed |-> consumed]
        ELSE [item |-> Some(DataLine_new(remove_newline(rl.line),
                                         column_names)),
              consumed |-> consumed + rl.read_bytes]

\* the column header row VCFWriter::new writes
ColumnRow(column_names) ==
    <<"#">> \o Join(FIXED_COLUMNS, <<"\t">>)
        \o (IF column_names # <<>>
            THEN <<"\t", "F", "O", "R", "M", "A", "T">>
                 \o Concat([i \in 1..Len(column_names) |->
                               <<"\t">> \o column_names[i]])
            ELSE <<>>)

\* what VCFWriter::new writes to its sink
VCFWriter_new(h) ==
    Version_fmt(h.version) \o <<"\n">>
        \o Concat([i \in 1..Len(h.header_lines) |->
                      HeaderLine_fmt(h.header_lines[i]) \o <<"\n">>])
        \o ColumnRow(h.column_names)

\* the data line followed, not preceded, by the line break
write_data_line_break_after(dl) == DataLine_fmt(dl) \o <<"\n">>

\* what VCFWriter::write_data_line writes to its sink
write_data_line(dl) == <<"\n">> \o DataLine_fmt(dl)

RECURSIVE ReadItems(_, _, _)
\* every item of the reader's iterator, to the end of the input
ReadItems(bytes, consumed, column_names) ==
    LET n == next_item(bytes, consumed, column_names)
    IN  IF n.item.tag = "None" THEN <<>>
        ELSE <<n.item.val>> \o ReadItems(bytes, n.consumed, column_names)

----------------------------------------------------------------------------
(* Bounded inputs                                                           *)

RECURSIVE TextsOf(_, _)
\* the concatenations of at most n parts
TextsOf(parts, n) ==
    IF n = 0 THEN {<<>>}
    ELSE LET shorter == TextsOf(parts, n - 1)
         IN  shorter \cup {t \o p : t \in shorter, p \in parts}

RECURSIVE ListsOf(_, _)
\* the sequences of at most n elements of pool
ListsOf(pool, n) ==
    IF n = 0 THEN {<<>>}
    ELSE LET shorter == ListsOf(pool, n - 1)
         IN  shorter \cup {Append(t, p) : t \in shorter, p \in pool}

RECURSIVE ListsNoRepeat(_, _)
\* the sequences of at most n pairwise distinct elements of pool
ListsNoRepeat(pool, n) ==
    IF n = 0 THEN {<<>>}
    ELSE LET shorter == ListsNoRepeat(pool, n - 1)
         IN  shorter \cup
             {Append(x[1], x[2]) :
                 x \in {y \in shorter \X pool :
                           \A i \in 1..Len(y[1]) : y[1][i] # y[2]}}

MaxPayloadParts == 4

PayloadParts ==
    { <<"a">>, <<"=">>, <<",">>, <<"\"">>, <<"[">>, <<"]">>, <<"\\">>, <<MultiByte>>,
      <<"a", "=", "x">>, <<"a", "=", "y">>, <<"b", "=", "y">>,
      <<"a", "=", "\"">>, <<"a", "=", "[">>, <<"\\", "\"">> }

MaxPairs == 3

PayloadPairs == {<<"a", "=", "x">>, <<"a", "=", "y">>, <<"b", "=", "y">>}

\* every list of one to n of the pairs, keys repeating or not, joined by
\* commas
PairPayloads(n) ==
    {Join(l, <<",">>) : l \in ListsOf(PayloadPairs, n) \ {<<>>}}

\* every text of at most n parts, bare and inside triangle brackets, the
\* single parts with one bracket only, and the lists of pairs
PayloadInputs(n) ==
    LET texts == TextsOf(PayloadParts, n)
    IN  texts \cup {<<"<">> \o t \o <<">">> : t \in texts}
              \cup {<<"<">> \o t : t \in PayloadParts}
              \cup {t \o <<">">> : t \in PayloadParts}
              \cup PairPayloads(MaxPairs)

\* the variables of the operations a behaviour does not use
NoPure == arg = <<>> /\ ret = None /\ fmt = <<>> /\ ret2 = None

NoStream ==
    /\ file = <<>> /\ pos = 0 /\ header = None /\ items = <<>>
    /\ writer = FALSE /\ out = <<>> /\ calls = <<>>

StreamVars == <<file, pos, header, items, writer, out, calls>>

MaxAttrs == 4

\* the tags whose payload is an attribute list, each with the attributes
\* its lines are built from
AttrTags == { <<"A", "L", "T">>, <<"c", "o", "n", "t", "i", "g">>, <<"F", "I", "L", "T", "E", "R">>, <<"F", "O", "R", "M", "A", "T">>, <<"I", "N", "F", "O">>, <<"M", "E", "T", "A">>, <<"P", "E", "D", "I", "G", "R", "E", "E">>, <<"S", "A", "M", "P", "L", "E">> }

AttrPool(tag) ==
    CASE tag = <<"A", "L", "T">> ->
             { <<"I", "D", "=", "D", "E", "L">>, <<"I", "D", "=", "I", "N", "S", ":", "M", "E">>, <<"I", "D", "=", "D", "U", "P", ":">>, <<"D", "e", "s", "c", "r", "i", "p", "t", "i", "o", "n", "=", "\"", "d", "\"">>,
               <<"D", "e", "s", "c", "r", "i", "p", "t", "i", "o", "n", "=", "d", "\\">> }
      [] tag = <<"c", "o", "n", "t", "i", "g">> ->
             { <<"I", "D", "=", "c">>, <<"s", "p", "e", "c", "i", "e", "s", "=", "\"", "s", "\"">>, <<"l", "e", "n", "g", "t", "h", "=", "5">>, <<"U", "R", "L", "=", "u">>,
               <<"m", "d", "5", "=", "\"", "m", ",", "n", "\"">> }
      [] tag = <<"F", "I", "L", "T", "E", "R">> ->
             { <<"I", "D", "=", "q">>, <<"D", "e", "s", "c", "r", "i", "p", "t", "i", "o", "n", "=", "\"", "d", "\"">>, <<"D", "e", "s", "c", "r", "i", "p", "t", "i", "o", "n", "=", "d", "\\">>,
               <<"D", "e", "s", "c", "r", "i", "p", "t", "i", "o", "n", "=", "[", "d", "\"", "e", "]">> }
      [] tag = <<"F", "O", "R", "M", "A", "T">> ->
             { <<"I", "D", "=", "G", "T">>, <<"N", "u", "m", "b", "e", "r", "=", "1">>, <<"N", "u", "m", "b", "e", "r", "=", "x">>, <<"T", "y", "p", "e", "=", "F", "l", "o", "a", "t">>,
               <<"T", "y", "p", "e", "=", "F", "l", "a", "g">>, <<"D", "e", "s", "c", "r", "i", "p", "t", "i", "o", "n", "=", "\"", "d", "\"">> }
      [] tag = <<"I", "N", "F", "O">> ->
             { <<"I", "D", "=", "N", "S">>, <<"N", "u", "m", "b", "e", "r", "=", "A">>, <<"N", "u", "m", "b", "e", "r", "=", "0", "1">>, <<"T", "y", "p", "e", "=", "F", "l", "a", "g">>,
               <<"T", "y", "p", "e", "=", "z", "z">>, <<"D", "e", "s", "c", "r", "i", "p", "t", "i", "o", "n", "=", "\"", "d", "\"">>, <<"S", "o", "u", "r", "c", "e", "=", "\"", "s", "\"">>,
               <<"V", "e", "r", "s", "i", "o", "n", "=", "3">> }
      [] tag = <<"M", "E", "T", "A">> ->
             { <<"I", "D", "=", "m">>, <<"T", "y", "p", "e", "=", "S", "t", "r", "i", "n", "g">>, <<"N", "u", "m", "b", "e", "r", "=", ".">>, <<"V", "a", "l", "u", "e", "s", "=", "[", "a", ",", " ", "b", "]">> }
      [] tag = <<"P", "E", "D", "I", "G", "R", "E", "E">> ->
             { <<"I", "D", "=", "p">>, <<"O", "r", "i", "g", "i", "n", "a", "l", "=", "o">>, <<"F", "a", "t", "h", "e", "r", "=", "f">>, <<"M", "o", "t", "h", "e", "r", "=", "m">>,
               <<"N", "a", "m", "e", "_", "1", "=", "a">>, <<"N", "a", "m", "e", "_", "2", "=", "b">>, <<"N", "a", "m", "e", "_", "0", "=", "z">>, <<"f", "o", "o", "=", "x">> }
      [] tag = <<"S", "A", "M", "P", "L", "E">> ->
             { <<"I", "D", "=", "s">>, <<"D", "e", "s", "c", "r", "i", "p", "t", "i", "o", "n", "=", "\"", "d", "\"">>, <<"D", "O", "I", "=", "u">>, <<"G", "e", "n", "o", "m", "e", "s", "=", "G", ";", "T">>,
               <<"M", "i", "x", "t", "u", "r", "e", "=", ".", "3">> }

\* the lines of at most n attributes
AttrLines(n) ==
    UNION { { <<"#", "#">> \o tag \o <<"=", "<">> \o Join(attrs, <<",">>) \o <<">">> :
                attrs \in ListsNoRepeat(AttrPool(tag), n) } :
            tag \in AttrTags }

\* the tags whose payload is one value, the last three unknown to the
\* library
SingleTags ==
    { <<"a", "s", "s", "e", "m", "b", "l", "y">>, <<"f", "i", "l", "e", "D", "a", "t", "e">>, <<"p", "e", "d", "i", "g", "r", "e", "e", "D", "B">>, <<"r", "e", "f", "e", "r", "e", "n", "c", "e">>, <<"s", "o", "u", "r", "c", "e">>,
      <<"f", "i", "l", "e", "f", "o", "r", "m", "a", "t">> }

SinglePayloads ==
    { <<"x">>, <<"<", "x", ">">>, <<"a", "=", "b">>, <<"<", "a", "=", "b", ">">>, <<"V", "a", "l", "u", "e", "=", "x">>, <<>>, <<"x", ",", "y">>,
      <<"\"", "x", "\"">>, <<"f", "i", "l", "e", ":", "/", "/", "/", "r", ".", "f", "a">>, <<"<", "x">> }

SingleLines ==
    { <<"#", "#">> \o tag \o <<"=">> \o payload :
        tag \in SingleTags, payload \in SinglePayloads }

MalformedLines == { <<>>, <<"#", "#", "I", "N", "F", "O">>, <<"#", "I", "N", "F", "O", "=", "<", "I", "D", "=", "N", "S", ">">>, <<"I", "N", "F", "O", "=", "x">>, <<"#", "#", "=", "x">> }

HeaderLineInputs(n) == AttrLines(n) \cup SingleLines \cup MalformedLines

MaxSamples == 3

\* sample names, among them one with an inner and one with a trailing space
SampleNames == { <<"a">>, <<"b">>, <<"a", " ", "b">>, <<"a", " ">> }

\* the column-name rows: the fixed columns alone, the fixed columns with
\* FORMAT and sample names, and rows of other shapes
ColumnLineInputs(n) ==
    { COLUMNS_PREFIX \o <<"\t", "F", "O", "R", "M", "A", "T">> \o Concat([i \in 1..Len(names) |-> <<"\t">> \o names[i]]) :
        names \in ListsOf(SampleNames, n) }
    \cup { COLUMNS_PREFIX \o t :
             t \in { <<>>, <<"\t">>, <<"\t", "a">>, <<"F", "O", "R", "M", "A", "T", "\t", "a">>, <<"\t", "F", "O", "R", "M", "A", "T", "X", "\t", "a">>,
                     <<"\t", "F", "O", "R", "M", "A", "T", "\t", "a", "\t", "\t", "b">>, <<"\t", "F", "O", "R", "M", "A", "T", "\t", "a", "\r">> } }
    \cup { <<>>, <<"#", "C", "H", "R", "O", "M", "\t", "P", "O", "S">>, <<"C", "H", "R", "O", "M", "\t", "P", "O", "S", "\t", "I", "D", "\t", "R", "E", "F", "\t", "A", "L", "T", "\t", "Q", "U", "A", "L", "\t", "F", "I", "L", "T", "E", "R", "\t", "I", "N", "F", "O">> }

\* the values a data line is built from, one set per fixed column
FixedFieldPool ==
    << { <<"1">> }, { <<"5">>, <<"0", "7">>, <<"x">> }, { <<".">>, <<"a", ";", "b">>, <<"a", ";", ";", "b">>, <<>> }, { <<"A">> },
       { <<".">>, <<"T", ",", "C">> }, { <<"9">>, <<"q">> }, { <<"P", "A", "S", "S">>, <<"q", "1", ";", "q", "2">> },
       { <<".">> } >>

\* the values of the FORMAT and sample columns
ExtraFieldPool == { <<"G", "T", ":", "D", "P">>, <<".">>, <<>> }

MaxExtraFields == 3

RECURSIVE FixedFields(_)
\* the choices of the first n fixed columns
FixedFields(n) ==
    IF n = 0 THEN {<<>>}
    ELSE {Append(t, f) : t \in FixedFields(n - 1), f \in FixedFieldPool[n]}

\* lines of 7 columns, of 8 columns, and of 8 columns followed by at most
\* n more
DataLineTexts(n) ==
    { Join(fields, <<"\t">>) : fields \in FixedFields(7) }
    \cup { Join(fields \o extra, <<"\t">>) :
             fields \in FixedFields(8),
             extra \in ListsOf(ExtraFieldPool, n) }

\* the declared sample columns: none, one, many
ColumnNameLists == { <<>>, <<<<"a">>>>, <<<<"a">>, <<"b">>>>, <<<<"a">>, <<"b">>, <<"c">>>> }

FormatKeys == { <<"G", "T">>, <<"D", "P">>, <<"X", "X">>, <<".">> }

MaxHeaderLines == 3

\* the lines a file's header is built from: a version line, an INFO line
\* and two FILTER lines, the second with a bracketed description that holds
\* a quote
FileHeaderLines ==
    { <<"#", "#", "f", "i", "l", "e", "f", "o", "r", "m", "a", "t", "=", "V", "C", "F", "v", "4", ".", "2">>,
      <<"#", "#", "I", "N", "F", "O", "=", "<", "I", "D", "=", "N", "S", ",", "N", "u", "m", "b", "e", "r", "=", "1", ",", "T", "y", "p", "e", "=", "I", "n", "t", "e", "g", "e", "r", ",", "D", "e", "s", "c", "r", "i", "p", "t", "i", "o", "n", "=", "\"", "d", "\"", ">">>,
      <<"#", "#", "F", "I", "L", "T", "E", "R", "=", "<", "I", "D", "=", "q", ",", "D", "e", "s", "c", "r", "i", "p", "t", "i", "o", "n", "=", "\"", "d", "\"", ">">>,
      <<"#", "#", "F", "I", "L", "T", "E", "R", "=", "<", "I", "D", "=", "q", ",", "D", "e", "s", "c", "r", "i", "p", "t", "i", "o", "n", "=", "[", "d", "\"", "e", "]", ">">> }

\* the column-name rows: none, no samples, one sample
FileColumnRows ==
    { <<>>, <<COLUMNS_PREFIX>>, <<COLUMNS_PREFIX \o <<"\t", "F", "O", "R", "M", "A", "T", "\t", "a">>>> }

MaxDataLines == 2

\* data lines: one of 8 columns, two of 10 columns
FileDataLines ==
    { <<"1", "\t", "5", "\t", ".", "\t", "A", "\t", ".", "\t", "9", "\t", "P", "A", "S", "S", "\t", ".">>, <<"1", "\t", "0", "7", "\t", "a", ";", "b", "\t", "A", "\t", "T", ",", "C", "\t", ".", "\t", "q", "\t", ".", "\t", "G", "T", ":", "D", "P", "\t", "0", ":", "1">>,
      <<"2", "\t", "6", "\t", ".", "\t", "C", "\t", ".", "\t", ".", "\t", "P", "A", "S", "S", "\t", ".", "\t", "G", "T", "\t", ".">> }

\* how the lines of a file end: LF after every line, LF between the lines
\* only, CR LF after every line
LineEndings == { "LF", "LF_unterminated", "CRLF" }

FileText(lines, ending) ==
    CASE ending = "LF" -> Concat([i \in 1..Len(lines) |-> lines[i] \o <<"\n">>])
      [] ending = "LF_unterminated" -> Join(lines, <<"\n">>)
      [] ending = "CRLF" ->
             Concat([i \in 1..Len(lines) |-> lines[i] \o <<"\r", "\n">>])

\* two version lines
FileVersionLines ==
    { VERSION_PREFIX \o <<"V", "C", "F", "v", "4", ".", "2">>,
      VERSION_PREFIX \o <<"V", "C", "F", "v", "4", ".", "3">> }

\* files that end before a column-name row: the two version lines in
\* either order, alone or followed by one more header line
VersionFiles ==
    { FileText(v \o h, e) :
        v \in {l \in ListsNoRepeat(FileVersionLines, 2) : Len(l) = 2},
        h \in ListsNoRepeat(FileHeaderLines, 1),
        e \in LineEndings }

\* the files of at most n header lines and at most m data lines, and the
\* files of version lines
FileInputs(n, m) ==
    { FileText(h \o c \o d, e) :
        h \in ListsNoRepeat(FileHeaderLines, n),
        c \in FileColumnRows,
        d \in ListsOf(FileDataLines, m),
        e \in LineEndings }
    \cup VersionFiles

\* how many times the reader is pulled after it reported the end of input
MaxPullsAtEnd == 2

\* how many data lines are handed to the writer
MaxWrites == 2

----------------------------------------------------------------------------
(* The payload tokenizer applied to each input                              *)

InitPayload ==
    /\ pc = "payload"
    /\ arg \in PayloadInputs(MaxPayloadParts)
    /\ ret = None /\ fmt = <<>> /\ ret2 = None
    /\ NoStream

ParseHeaderPayload ==
    /\ pc = "payload"
    /\ ret' = parse_header_payload(arg)
    /\ pc' = "payload_done"
    /\ UNCHANGED <<arg, fmt, ret2, StreamVars>>

NextPayload == ParseHeaderPayload

SpecPayload == InitPayload /\ [][NextPayload]_vars

----------------------------------------------------------------------------
(* A header line parsed, formatted, and the formatted text parsed again     *)

InitHeaderLine ==
    /\ pc = "line"
    /\ arg \in HeaderLineInputs(MaxAttrs)
    /\ ret = None /\ fmt = <<>> /\ ret2 = None
    /\ NoStream

HeaderLineParse ==
    /\ pc = "line"
    /\ ret' = HeaderLine_from_str(arg)
    /\ pc' = "line_parsed"
    /\ UNCHANGED <<arg, fmt, ret2, StreamVars>>

HeaderLineFormat ==
    /\ pc = "line_parsed"
    /\ IsOk(ret)
    /\ fmt' = HeaderLine_fmt(ret.val)
    /\ pc' = "line_formatted"
    /\ UNCHANGED <<arg, ret, ret2, StreamVars>>

HeaderLineReparse ==
    /\ pc = "line_formatted"
    /\ ret2' = HeaderLine_from_str(fmt)
    /\ pc' = "line_reparsed"
    /\ UNCHANGED <<arg, ret, fmt, StreamVars>>

NextHeaderLine == HeaderLineParse \/ HeaderLineFormat \/ HeaderLineReparse

SpecHeaderLine == InitHeaderLine /\ [][NextHeaderLine]_vars


\* C1: every header line that from_str accepts is reproduced by formatting
\* the variant with Display and parsing the formatted text: the second parse
\* succeeds and yields a variant equal to the first.
C1_HeaderLineRoundTrip ==
    pc = "line_reparsed" =>
        IsOk(ret2) /\ HeaderLine_eq(ret2.val, ret.val)

\* C3: no parse operation aborts: whatever the input, the outcome of a
\* parse is a value or a returned error, never a panic.
C3_NoParseAborts == ~IsPanic(ret) /\ ~IsPanic(ret2)

RecognizedTags ==
    { <<"A", "L", "T">>, <<"a", "s", "s", "e", "m", "b", "l", "y">>, <<"c", "o", "n", "t", "i", "g">>, <<"f", "i", "l", "e", "D", "a", "t", "e">>, <<"F", "I", "L", "T", "E", "R">>, <<"F", "O", "R", "M", "A", "T">>, <<"I", "N", "F", "O">>, <<"M", "E", "T", "A">>, <<"P", "E", "D", "I", "G", "R", "E", "E">>, <<"p", "e", "d", "i", "g", "r", "e", "e", "D", "B">>, <<"S", "A", "M", "P", "L", "E">> }

\* the line has the shape ##TAG=payload
IsTagged(line) == StartsWith(line, <<"#", "#">>) /\ Find(line, "=") > 2

TagOf(line) == SubSeq(line, 3, Find(line, "=") - 1)

PayloadOf(line) == SubSeq(line, Find(line, "=") + 1, Len(line))

\* C9: a line ##TAG=payload with an unrecognized TAG and a non-empty
\* payload parses to Other{key: TAG, value: payload}, also when the payload
\* contains an = character.
C9_UnknownTagIsOther ==
    (/\ pc = "line_parsed"
     /\ IsTagged(arg)
     /\ TagOf(arg) \notin RecognizedTags
     /\ PayloadOf(arg) # <<>>)
    => ret = Ok([variant |-> "Other", key |-> TagOf(arg),
                 value |-> PayloadOf(arg)])


----------------------------------------------------------------------------
(* The column-name row parser applied to each input                         *)

InitColumns ==
    /\ pc = "columns"
    /\ arg \in ColumnLineInputs(MaxSamples)
    /\ ret = None /\ fmt = <<>> /\ ret2 = None
    /\ NoStream

ParseColumnNames ==
    /\ pc = "columns"
    /\ ret' = parse_column_names(arg)
    /\ pc' = "columns_done"
    /\ UNCHANGED <<arg, fmt, ret2, StreamVars>>

NextColumns == ParseColumnNames

SpecColumns == InitColumns /\ [][NextColumns]_vars

----------------------------------------------------------------------------
(* A data line parsed under a list of sample columns, then queried          *)

InitDataLine ==
    /\ pc = "data"
    /\ arg \in [line : DataLineTexts(MaxExtraFields),
               column_names : ColumnNameLists]
    /\ ret = None /\ fmt = <<>> /\ ret2 = None
    /\ NoStream

DataLineNew ==
    /\ pc = "data"
    /\ ret' = DataLine_new(arg.line, arg.column_names)
    /\ pc' = "data_parsed"
    /\ UNCHANGED <<arg, fmt, ret2, StreamVars>>

\* format_index called with the key fmt
FormatIndex ==
    /\ pc = "data_parsed"
    /\ IsOk(ret)
    /\ \E entry \in FormatKeys :
           /\ fmt' = entry
           /\ ret2' = format_index(ret.val, entry)
    /\ pc' = "data_indexed"
    /\ UNCHANGED <<arg, ret, StreamVars>>

\* the DataLine written with Display
DataLineFormat ==
    /\ pc = "data_parsed"
    /\ IsOk(ret)
    /\ fmt' = DataLine_fmt(ret.val)
    /\ pc' = "data_formatted"
    /\ UNCHANGED <<arg, ret, ret2, StreamVars>>

\* DataLine::new on the written line, under the same sample columns
DataLineReparse ==
    /\ pc = "data_formatted"
    /\ ret2' = DataLine_new(fmt, arg.column_names)
    /\ pc' = "data_reparsed"
    /\ UNCHANGED <<arg, ret, fmt, StreamVars>>

NextDataLine ==
    DataLineNew \/ FormatIndex \/ DataLineFormat \/ DataLineReparse

SpecDataLine == InitDataLine /\ [][NextDataLine]_vars


\* the number of tab-delimited columns of a line
ColumnsFound(line) == Cardinality({i \in 1..Len(line) : line[i] = "\t"}) + 1

\* the number of columns a data line must have under n declared samples
ColumnsExpected(n) == IF n = 0 THEN 8 ELSE 8 + 1 + n

\* C6: DataLine::new fails whenever the number of tab-delimited columns
\* differs from 8 (no declared samples) or 8 + 1 + n (n >= 1 declared
\* samples); the error names the expected and the found count, and it is
\* this error that is returned whatever the fields contain.
C6_ColumnCountChecked ==
    (/\ pc = "data_parsed"
     /\ ColumnsFound(arg.line) # ColumnsExpected(Len(arg.column_names)))
    => ret = ErrWith("invalid number of columns found",
                     [expected |-> ColumnsExpected(Len(arg.column_names)),
                      found |-> ColumnsFound(arg.line)])

\* one declared sample and 9 columns, the second of them not a number: the
\* error is expected 10, found 9
C6_Witness ==
    /\ pc = "data_parsed"
    /\ Len(arg.column_names) = 1
    /\ ColumnsFound(arg.line) = 9
    /\ Split(arg.line, "\t")[2] = <<"x">>
    /\ ret = ErrWith("invalid number of columns found",
                     [expected |-> 10, found |-> 9])

\* the keys written in the FORMAT column of the line, none when the line
\* has no FORMAT column or the column is the missing sentinel
FormatKeysOf(line, column_names) ==
    IF column_names = <<>> \/ Split(line, "\t")[9] = <<".">> THEN <<>>
    ELSE Split(Split(line, "\t")[9], ":")

\* C7: on a DataLine made by DataLine::new, format_index(k) returns an index
\* i with Format entries[i] = k when k is a key of the line's Format field,
\* and not-found when k is absent, when the line has no Format column and
\* when the Format column is the missing sentinel.
C7_FormatIndex ==
    pc = "data_indexed" =>
        LET keys == FormatKeysOf(arg.line, arg.column_names)
        IN  IF \E i \in 1..Len(keys) : keys[i] = fmt
            THEN /\ ret2.tag = "Some"
                 /\ ret2.val + 1 \in 1..Len(keys)
                 /\ keys[ret2.val + 1] = fmt
                 /\ ret.val.format.val.entries[ret2.val + 1] = fmt
            ELSE ret2 = None

\* the second key of GT:DP is found at index 1
C7_Witness ==
    /\ pc = "data_indexed"
    /\ FormatKeysOf(arg.line, arg.column_names) = <<<<"G", "T">>, <<"D", "P">>>>
    /\ fmt = <<"D", "P">>
    /\ ret2 = Some(1)

\* the fixed columns followed by the FORMAT marker
COLUMNS_WITH_FORMAT == COLUMNS_PREFIX \o <<"\t", "F", "O", "R", "M", "A", "T", "\t">>

\* the tab-separated names written after the FORMAT marker
NamesWritten(line) ==
    Split(SubSeq(line, Len(COLUMNS_WITH_FORMAT) + 1, Len(line)), "\t")

\* C8: on the fixed columns followed by the FORMAT marker and tab-separated
\* sample names, parse_column_names returns the names in input order, or an
\* error when two names are equal; every returned list is pairwise
\* distinct; on the fixed columns alone it returns the empty list.
C8_ColumnNames ==
    pc = "columns_done" =>
        /\ (/\ StartsWith(arg, COLUMNS_WITH_FORMAT)
            /\ \A i \in 1..Len(NamesWritten(arg)) : NamesWritten(arg)[i] # <<>>)
           => IF Unique(NamesWritten(arg))
              THEN ret = Ok(NamesWritten(arg))
              ELSE IsErr(ret)
        /\ IsOk(ret) => Unique(ret.val)
        /\ arg = COLUMNS_PREFIX => ret = Ok(<<>>)


\* the payload without its triangle brackets
Inner(payload) ==
    IF Len(payload) >= 2 /\ payload[1] = "<" /\ payload[Len(payload)] = ">"
    THEN SubSeq(payload, 2, Len(payload) - 1)
    ELSE payload

\* the ways of writing one pair: bare, double-quoted, bracketed
PairTexts(e) ==
    { e[1] \o <<"=">> \o e[2],
      e[1] \o <<"=", "\"">> \o e[2] \o <<"\"">>,
      e[1] \o <<"=", "[">> \o e[2] \o <<"]">> }

RECURSIVE PairListTexts(_, _)
\* the ways of writing the first n pairs of a mapping, in its order,
\* separated by commas
PairListTexts(m, n) ==
    IF n = 0 THEN {<<>>}
    ELSE { t \o (IF n > 1 THEN <<",">> ELSE <<>>) \o p :
             t \in PairListTexts(m, n - 1), p \in PairTexts(m[n]) }

\* C4: the mapping returned for an accepted key=value payload holds exactly
\* the pairs written in the payload, in their input order, each value
\* without its enclosing quotes or brackets: writing the returned pairs in
\* order, each with the delimiters it had, gives back the payload (a final
\* comma apart).
C4_ExactlyThePairsWritten ==
    (/\ pc = "payload_done"
     /\ IsOk(ret)
     /\ Contains(Inner(arg), "="))
    => \E t \in PairListTexts(ret.val, Len(ret.val)) :
           Inner(arg) = t \/ Inner(arg) = t \o <<",">>

\* the payload is one pair whose value is double-quoted, holds a quote, and
\* ends at the first quote that no backslash precedes
IsEscapedQuoteValue(p) ==
    LET e == Find(p, "=")
    IN  /\ e > 1
        /\ Len(p) >= e + 4
        /\ p[e + 1] = "\""
        /\ p[Len(p)] = "\"" /\ p[Len(p) - 1] # "\\"
        /\ \E i \in (e + 2)..(Len(p) - 1) : p[i] = "\""
        /\ \A i \in (e + 2)..(Len(p) - 1) : p[i] = "\"" => p[i - 1] = "\\"
        /\ \A i \in 1..(e - 1) : p[i] \notin {",", "\"", "["}

\* C5: inside a double-quoted value a quote preceded by a backslash does
\* not close the value; the value runs to the next unescaped quote and is
\* returned with its backslash-quote sequences as written.
C5_EscapedQuoteKept ==
    (pc = "payload_done" /\ IsEscapedQuoteValue(Inner(arg)))
    => LET p == Inner(arg)
           e == Find(p, "=")
       IN  ret = Ok(<< <<SubSeq(p, 1, e - 1), SubSeq(p, e + 2, Len(p) - 1)>> >>)


----------------------------------------------------------------------------
(* Reading a file, writing what was read, and reading the written text      *)

Init ==
    /\ pc = "start"
    /\ file \in FileInputs(MaxHeaderLines, MaxDataLines)
    /\ pos = 0 /\ header = None /\ items = <<>>
    /\ writer = FALSE /\ out = <<>> /\ calls = <<>>
    /\ NoPure

\* VCFParser::new on the file
ParserNew ==
    /\ pc = "start"
    /\ header' = VCFParser_new(file)
    /\ pos' = IF IsOk(header') THEN header'.val.consumed ELSE pos
    /\ pc' = IF IsOk(header') THEN "reading" ELSE "failed"
    /\ UNCHANGED <<arg, ret, fmt, ret2, file, items, writer, out, calls>>

\* the number of pulls that reported the end of the input
PullsAtEnd == Cardinality({i \in 1..Len(items) : items[i].tag = "None"})

\* one pull of the reader
NextItem ==
    /\ pc = "reading"
    /\ PullsAtEnd < MaxPullsAtEnd
    /\ LET n == next_item(file, pos, header.val.column_names)
       IN  /\ items' = Append(items, n.item)
           /\ pos' = n.consumed
    /\ UNCHANGED <<pc, arg, ret, fmt, ret2, file, header, writer, out, calls>>

\* VCFWriter::new on the parsed header
WriterNew ==
    /\ pc = "reading"
    /\ ~writer
    /\ writer' = TRUE
    /\ out' = VCFWriter_new(header.val)
    /\ UNCHANGED <<pc, arg, ret, fmt, ret2, file, pos, header, items, calls>>

\* write_data_line on one of the DataLines read so far
WriteDataLine ==
    /\ pc = "reading"
    /\ writer
    /\ Len(calls) < MaxWrites
    /\ \E i \in 1..Len(items) :
           /\ items[i].tag = "Some"
           /\ IsOk(items[i].val)
           /\ calls' = Append(calls, items[i].val.val)
           /\ out' = out \o write_data_line(items[i].val.val)
    /\ UNCHANGED <<pc, arg, ret, fmt, ret2, file, pos, header, items, writer>>

\* the DataLines read so far, in reading order
DataLinesRead ==
    LET read == SelectSeq(items, LAMBDA it : it.tag = "Some" /\ IsOk(it.val))
    IN  [i \in 1..Len(read) |-> read[i].val.val]

\* the written text read from its start to its end, once the reader has
\* reported the end of the file and every DataLine read has been written,
\* as examples/read-write.rs copies a file
Reread ==
    /\ pc = "reading"
    /\ writer
    /\ PullsAtEnd > 0
    /\ calls = DataLinesRead
    /\ ret' = VCFParser_new(out)
    /\ ret2' = IF IsOk(ret')
               THEN Ok(ReadItems(out, ret'.val.consumed,
                                 ret'.val.column_names))
               ELSE None
    /\ pc' = "reread"
    /\ UNCHANGED <<arg, fmt, file, pos, header, items, writer, out, calls>>

Next == ParserNew \/ NextItem \/ WriterNew \/ WriteDataLine \/ Reread

Spec == Init /\ [][Next]_vars


\* the first read took a version line, an INFO line, a FILTER line, a
\* column-name row with one sample and one data line, and the writer was
\* given that data line
MinimalFileCopied ==
    /\ IsOk(header)
    /\ header.val.version # <<>>
    /\ Len(header.val.header_lines) = 2
    /\ header.val.header_lines[1].variant = "Info"
    /\ header.val.header_lines[2].variant = "Filter"
    /\ Len(header.val.column_names) = 1
    /\ Len(items) >= 2
    /\ items[1].tag = "Some" /\ IsOk(items[1].val)
    /\ items[2].tag = "None"
    /\ calls = <<items[1].val.val>>

\* C2: a minimal file (version line, one INFO line, one FILTER line, column
\* row with one sample, one data line) that is read, written with VCFWriter
\* and read again gives the same version, header lines, column names and
\* DataLine sequence.
C2_MinimalFileRoundTrip ==
    (pc = "reread" /\ MinimalFileCopied)
    => /\ IsOk(ret)
       /\ ret.val.version = header.val.version
       /\ ret.val.header_lines = header.val.header_lines
       /\ ret.val.column_names = header.val.column_names
       /\ ret2 = Ok(<<Ok(calls[1])>>)

\* the column header row of a header with the given sample columns
ColumnRowOf(column_names) ==
    <<"#", "C", "H", "R", "O", "M", "\t", "P", "O", "S", "\t", "I", "D", "\t", "R", "E", "F", "\t", "A", "L", "T", "\t", "Q", "U", "A", "L", "\t", "F", "I", "L", "T", "E", "R", "\t", "I", "N", "F", "O">>
        \o (IF column_names = <<>> THEN <<>>
            ELSE <<"\t", "F", "O", "R", "M", "A", "T", "\t">> \o Join(column_names, <<"\t">>))

\* the lines a writer must have written for header h and the given calls
LinesOf(h, written) ==
    << <<"#", "#", "f", "i", "l", "e", "f", "o", "r", "m", "a", "t", "=">> \o h.version >>
        \o [i \in 1..Len(h.header_lines) |-> HeaderLine_fmt(h.header_lines[i])]
        \o << ColumnRowOf(h.column_names) >>
        \o [i \in 1..Len(written) |-> DataLine_fmt(written[i])]

\* C10: the output of a VCFWriter is the version line, then the header
\* lines in stored order, then the column header row (with FORMAT and the
\* sample names exactly when samples are declared), then one line per
\* write_data_line call in call order, each preceded by a line break.
C10_WriterOutputOrder ==
    writer => out = Join(LinesOf(header.val, calls), <<"\n">>)

\* two header lines, a sample column and two different data lines written
C10_Witness ==
    /\ writer
    /\ Len(header.val.header_lines) = 2
    /\ header.val.column_names # <<>>
    /\ Len(calls) = 2
    /\ calls[1] # calls[2]
    /\ out = Join(LinesOf(header.val, calls), <<"\n">>)


\* the physical lines of a text: the pieces between line feeds, the line
\* feeds taken off
PhysicalLines(text) ==
    LET pieces == Split(text, "\n")
    IN  IF pieces[Len(pieces)] = <<>>
        THEN SubSeq(pieces, 1, Len(pieces) - 1)
        ELSE pieces

RECURSIVE LinesLength(_, _)
\* the number of characters of the first i of the lines, one line feed
\* counted after each
LinesLength(lines, i) ==
    IF i = 0 THEN 0 ELSE LinesLength(lines, i - 1) + Len(lines[i]) + 1

\* the number of characters of text up to the end of its i-th physical
\* line, line feed included; the whole text when it has fewer lines or its
\* i-th line is the last and unterminated
LineEnd(text, i) ==
    LET lines == PhysicalLines(text)
        n == IF i <= Len(lines) THEN LinesLength(lines, i) ELSE Len(text)
    IN  IF n <= Len(text) THEN n ELSE Len(text)

\* the index of the first line that is not a ## line, one past the last
\* line when every line is one
HeaderStop(lines) ==
    LET others == {i \in 1..Len(lines) : ~StartsWith(lines[i], <<"#", "#">>)}
    IN  IF others = {} THEN Len(lines) + 1
        ELSE CHOOSE i \in others : \A j \in others : i <= j

\* the last of the lines that starts with the version marker, cut after
\* the marker; empty when there is none
VersionOf(lines) ==
    LET vs == {i \in 1..Len(lines) : StartsWith(lines[i], <<"#", "#", "f", "i", "l", "e", "f", "o", "r", "m", "a", "t", "=">>)}
        last == CHOOSE i \in vs : \A j \in vs : j <= i
    IN  IF vs = {} THEN <<>>
        ELSE SubSeq(lines[last], Len(<<"#", "#", "f", "i", "l", "e", "f", "o", "r", "m", "a", "t", "=">>) + 1, Len(lines[last]))

\* the ## lines other than version lines, parsed, in the order of the lines
HeaderLinesOf(lines) ==
    LET other == SelectSeq(lines, LAMBDA l : ~StartsWith(l, <<"#", "#", "f", "i", "l", "e", "f", "o", "r", "m", "a", "t", "=">>))
    IN  [i \in 1..Len(other) |-> HeaderLine_from_str(other[i]).val]

\* C11: VCFParser::new takes the lines in file order: version lines set the
\* version, the other ## lines are parsed into header_lines in file order,
\* the first line starting with a single # is parsed as the column-name row
\* and is the last line the constructor consumes, and a line of any other
\* shape before the column-name row makes construction fail.  Stated of
\* the state the constructor leaves.
C11_HeaderInFileOrder ==
    (pc \in {"reading", "failed"} /\ items = <<>> /\ ~writer) =>
        LET lines == PhysicalLines(file)
            stop == HeaderStop(lines)
            before == SubSeq(lines, 1, stop - 1)
        IN  /\ (stop <= Len(lines) /\ ~StartsWith(lines[stop], <<"#">>))
               => ~IsOk(header)
            /\ IsOk(header) =>
                 /\ header.val.version = VersionOf(before)
                 /\ header.val.header_lines = HeaderLinesOf(before)
                 /\ header.val.consumed = LineEnd(file, stop)
                 /\ header.val.column_names =
                        IF stop <= Len(lines)
                        THEN parse_column_names(lines[stop]).val
                        ELSE <<>>

\* a version line between two header lines, then the column-name row, then
\* data lines the constructor leaves unread
C11_Witness ==
    /\ pc = "reading"
    /\ Len(header.val.header_lines) = 2
    /\ header.val.header_lines[1].variant = "Filter"
    /\ header.val.header_lines[2].variant = "Info"
    /\ StartsWith(PhysicalLines(file)[2], <<"#", "#", "f", "i", "l", "e", "f", "o", "r", "m", "a", "t", "=">>)
    /\ header.val.version = <<"V", "C", "F", "v", "4", ".", "2">>
    /\ header.val.column_names = <<<<"a">>>>
    /\ header.val.consumed < Len(file)
    /\ header.val.consumed = LineEnd(file, 4)

\* the physical lines that follow the consumed header
LinesAfterHeader ==
    PhysicalLines(SubSeq(file, header.val.consumed + 1, Len(file)))

\* C12: the k-th pull of the reader gives the result of parsing the k-th
\* physical line after the column-name row (the text up to its line feed),
\* and every pull made once the lines are used up gives the no-more-items
\* value.
C12_ItemsInFileOrder ==
    pc \in {"reading", "reread"} =>
        \A k \in 1..Len(items) :
            items[k] = IF k <= Len(LinesAfterHeader)
                       THEN Some(DataLine_new(LinesAfterHeader[k],
                                              header.val.column_names))
                       ELSE None

\* two different data lines pulled in order, then the end reported twice
C12_Witness ==
    /\ pc = "reading"
    /\ Len(LinesAfterHeader) = 2
    /\ Len(items) = 4
    /\ items[1].tag = "Some" /\ IsOk(items[1].val)
    /\ items[2].tag = "Some" /\ IsOk(items[2].val)
    /\ items[1] # items[2]
    /\ items[3] = None /\ items[4] = None


\* the closer of an opening character
CloserOf(opener) == IF opener = "[" THEN "]" ELSE "\""

\* the first value of the payload opens with a quote or a square bracket
\* and no closer of that kind follows anywhere in the payload
UnterminatedValue(payload) ==
    \E i \in 2..Len(payload) - 1 :
        /\ payload[i] = "="
        /\ \A j \in 1..i - 1 : payload[j] \notin {"=", ",", "<", ">"}
        /\ payload[i + 1] \in {"\"", "["}
        /\ \A j \in i + 2..Len(payload) :
               payload[j] # CloserOf(payload[i + 1])

\* C13: parse_header_payload returns an error for every payload in which a
\* value opens with a quote or a square bracket that no closer follows, the
\* opener being the last character of the payload included.
C13_UnterminatedValueRejected ==
    (pc = "payload_done" /\ UnterminatedValue(arg)) => IsErr(ret)


RECURSIVE PlainState(_, _)
\* whether a key or a value is being read after the first i characters of a
\* payload of bare pairs: = ends a key, a comma ends a value
PlainState(payload, i) ==
    IF i = 0 THEN "Key"
    ELSE IF PlainState(payload, i - 1) = "Key"
    THEN IF payload[i] = "=" THEN "Value" ELSE "Key"
    ELSE IF payload[i] = "," THEN "Key" ELSE "Value"

\* the first n characters of the payload hold no quote, bracket or backslash
PlainUpTo(payload, n) ==
    \A j \in 1..n : payload[j] \notin {"\"", "[", "]", "\\", "<", ">"}

\* position i holds the = that ends a key, and only bare pairs precede it
KeyEndsAt(payload, i) ==
    /\ payload[i] = "="
    /\ PlainUpTo(payload, i)
    /\ PlainState(payload, i - 1) = "Key"

\* a key or a value of the payload is empty at a pair boundary
EmptyKeyOrValue(payload) ==
    \E i \in 1..Len(payload) :
        /\ KeyEndsAt(payload, i)
        /\ \/ i = 1
           \/ i > 1 /\ payload[i - 1] = ","
                    /\ PlainState(payload, i - 1) = "Key"
                    /\ PlainState(payload, i - 2) = "Value"
           \/ i = Len(payload)
           \/ i < Len(payload) /\ payload[i + 1] = ","
           \/ i + 1 < Len(payload)
                /\ <<payload[i + 1], payload[i + 2]>>
                       \in {<<"\"", "\"">>, <<"[", "]">>}

\* C14: parse_header_payload returns an error whenever a key or a value is
\* empty at a pair boundary and for the empty payload, and no mapping it
\* returns holds an empty key or an empty value.
C14_EmptyKeyOrValueRejected ==
    pc = "payload_done" =>
        /\ (arg = <<>> \/ EmptyKeyOrValue(arg)) => IsErr(ret)
        /\ IsOk(ret) => \A i \in 1..Len(ret.val) :
                            ret.val[i][1] # <<>> /\ ret.val[i][2] # <<>>

\* the same for payloads of one-byte characters
C14_OneByte ==
    (\A j \in 1..Len(arg) : arg[j] # MultiByte) => C14_EmptyKeyOrValueRejected


\* the key and the value of a bare pair: the text before its first = and
\* the text after it
PairOf(piece) ==
    LET i == Find(piece, "=")
    IN  <<SubSeq(piece, 1, i - 1), SubSeq(piece, i + 1, Len(piece))>>

\* the pairs written in a payload, in the order written
WrittenPairs(payload) ==
    LET pieces == Split(payload, ",")
    IN  [i \in 1..Len(pieces) |-> PairOf(pieces[i])]

\* the payload is a list of bare pairs of one-byte characters, keys and
\* values not empty
IsPairList(payload) ==
    /\ payload # <<>>
    /\ PlainUpTo(payload, Len(payload))
    /\ \A j \in 1..Len(payload) : payload[j] # MultiByte
    /\ \A i \in 1..Len(Split(payload, ",")) :
           LET piece == Split(payload, ",")[i]
           IN  /\ Contains(piece, "=")
               /\ PairOf(piece)[1] # <<>>
               /\ PairOf(piece)[2] # <<>>

\* some key is written more than once
HasRepeatedKey(pairs) ==
    \E i, j \in 1..Len(pairs) : i < j /\ pairs[i][1] = pairs[j][1]

RECURSIVE KeysByFirst(_, _)
\* the keys of the first n pairs, each at the place of its first occurrence
KeysByFirst(pairs, n) ==
    IF n = 0 THEN <<>>
    ELSE IF \E j \in 1..n - 1 : pairs[j][1] = pairs[n][1]
    THEN KeysByFirst(pairs, n - 1)
    ELSE Append(KeysByFirst(pairs, n - 1), pairs[n][1])

RECURSIVE KeysByLast(_, _)
\* the keys of the pairs from the i-th on, each at the place of its last
\* occurrence
KeysByLast(pairs, i) ==
    IF i > Len(pairs) THEN <<>>
    ELSE IF \E j \in i + 1..Len(pairs) : pairs[j][1] = pairs[i][1]
    THEN KeysByLast(pairs, i + 1)
    ELSE <<pairs[i][1]>> \o KeysByLast(pairs, i + 1)

\* the value written last for the key
LastValue(pairs, key) ==
    LET is == {i \in 1..Len(pairs) : pairs[i][1] = key}
    IN  pairs[CHOOSE i \in is : \A j \in is : j <= i][2]

\* the keys of a mapping in its iteration order
KeysOf(m) == [i \in 1..Len(m) |-> m[i][1]]

\* each key of the mapping once, with the value written last for it
LastWriteWins(m, pairs) ==
    /\ \A i, j \in 1..Len(m) : m[i][1] = m[j][1] => i = j
    /\ \A i \in 1..Len(m) : m[i][2] = LastValue(pairs, m[i][1])

AfterFixedColumns(line) == SubSeq(line, Len(COLUMNS_PREFIX) + 1, Len(line))

\* a tab, the FORMAT marker, and one or more non-empty names, each after a
\* tab
IsFormatAndNames(rest) ==
    LET lead == <<"\t", "F", "O", "R", "M", "A", "T", "\t">>
    IN  /\ StartsWith(rest, lead)
        /\ LET names == Split(SubSeq(rest, Len(lead) + 1, Len(rest)), "\t")
           IN  \A i \in 1..Len(names) : names[i] # <<>>

\* C16: parse_column_names accepts text after the fixed columns only when
\* it is exactly a tab, the FORMAT marker, and one or more non-empty sample
\* names each after a tab; FORMAT with no name, an empty name, text that
\* only starts with FORMAT, and a missing tab after the fixed columns are
\* errors.
C16_OnlyFormatAndNames ==
    (/\ pc = "columns_done"
     /\ StartsWith(arg, COLUMNS_PREFIX)
     /\ AfterFixedColumns(arg) # <<>>
     /\ ~IsFormatAndNames(AfterFixedColumns(arg)))
    => IsErr(ret)


\* the line is ##PEDIGREE=<...> holding a list of bare pairs, ID among them
IsPedigreeLine(line) ==
    /\ IsTagged(line)
    /\ TagOf(line) = <<"P", "E", "D", "I", "G", "R", "E", "E">>
    /\ Inner(PayloadOf(line)) # PayloadOf(line)
    /\ IsPairList(Inner(PayloadOf(line)))
    /\ ~HasRepeatedKey(WrittenPairs(Inner(PayloadOf(line))))
    /\ \E i \in 1..Len(WrittenPairs(Inner(PayloadOf(line)))) :
           WrittenPairs(Inner(PayloadOf(line)))[i][1] = <<"I", "D">>

\* the pairs of a PEDIGREE line
PedigreePairs(line) == WrittenPairs(Inner(PayloadOf(line)))

HasKey(pairs, key) == \E i \in 1..Len(pairs) : pairs[i][1] = key

ValueOf(pairs, key) ==
    pairs[CHOOSE i \in 1..Len(pairs) : pairs[i][1] = key][2]

\* the values of the pairs other than ID, the pair whose key has i - 1
\* smaller keys at place i
ValuesInKeyOrder(pairs) ==
    LET named == SelectSeq(pairs, LAMBDA e : e[1] # <<"I", "D">>)
        rank(j) == Cardinality({k \in 1..Len(named) :
                                    TextLess(named[k][1], named[j][1])})
    IN  [i \in 1..Len(named) |->
            named[CHOOSE j \in 1..Len(named) : rank(j) = i - 1][2]]

\* C17: the relation of a PEDIGREE line is chosen by the keys present:
\* Original gives Original; otherwise Father or Mother gives Parents and
\* fails unless both are present; otherwise Name_1 gives Ancestors, the
\* values of all keys other than ID in lexicographic key order, and fails
\* if one of those keys does not start with Name_; with none of these keys
\* the line fails.
C17_PedigreeRelation ==
    (pc = "line_parsed" /\ IsPedigreeLine(arg)) =>
        LET pairs == PedigreePairs(arg)
            others == SelectSeq(pairs, LAMBDA e : e[1] # <<"I", "D">>)
        IN  IF HasKey(pairs, <<"O", "r", "i", "g", "i", "n", "a", "l">>)
            THEN /\ IsOk(ret)
                 /\ ret.val.relation =
                        [relation |-> "Original",
                         ids |-> <<ValueOf(pairs, <<"O", "r", "i", "g", "i", "n", "a", "l">>)>>]
            ELSE IF HasKey(pairs, <<"F", "a", "t", "h", "e", "r">>) \/ HasKey(pairs, <<"M", "o", "t", "h", "e", "r">>)
            THEN IF HasKey(pairs, <<"F", "a", "t", "h", "e", "r">>) /\ HasKey(pairs, <<"M", "o", "t", "h", "e", "r">>)
                 THEN /\ IsOk(ret)
                      /\ ret.val.relation =
                             [relation |-> "Parents",
                              ids |-> <<ValueOf(pairs, <<"F", "a", "t", "h", "e", "r">>),
                                        ValueOf(pairs, <<"M", "o", "t", "h", "e", "r">>)>>]
                 ELSE IsErr(ret)
            ELSE IF HasKey(pairs, <<"N", "a", "m", "e", "_", "1">>)
            THEN IF \A i \in 1..Len(others) :
                        StartsWith(others[i][1], <<"N", "a", "m", "e", "_">>)
                 THEN /\ IsOk(ret)
                      /\ ret.val.relation =
                             [relation |-> "Ancestors",
                              ids |-> ValuesInKeyOrder(pairs)]
                 ELSE IsErr(ret)
            ELSE IsErr(ret)

\* ancestors written out of key order come back in key order
C17_Witness ==
    /\ pc = "line_parsed"
    /\ arg = <<"#", "#", "P", "E", "D", "I", "G", "R", "E", "E", "=", "<", "N", "a", "m", "e", "_", "2", "=", "b", ",", "I", "D", "=", "p", ",", "N", "a", "m", "e", "_", "1", "=", "a", ",", "N", "a", "m", "e", "_", "0", "=", "z", ">">>
    /\ IsPedigreeLine(arg)
    /\ IsOk(ret)
    /\ ret.val.relation = [relation |-> "Ancestors",
                           ids |-> <<<<"z">>, <<"a">>, <<"b">>>>]


\* a value without the double quotes around it, if it has them
Unquoted(value) ==
    IF Len(value) >= 2 /\ value[1] = "\"" /\ value[Len(value)] = "\""
    THEN SubSeq(value, 2, Len(value) - 1)
    ELSE value

\* the attributes written in a line ##TAG=<k=v,...>: keys with their
\* values, quotes taken off
AttrsOf(line) ==
    LET pairs == WrittenPairs(Inner(PayloadOf(line)))
    IN  [i \in 1..Len(pairs) |-> <<pairs[i][1], Unquoted(pairs[i][2])>>]

\* the line is ##tag=<...> with a list of attributes, each a key and a bare
\* or double-quoted value free of further quotes, commas, brackets and
\* backslashes, no key written twice
IsAttrLine(line, tag) ==
    /\ IsTagged(line)
    /\ TagOf(line) = tag
    /\ Inner(PayloadOf(line)) # PayloadOf(line)
    /\ Inner(PayloadOf(line)) # <<>>
    /\ \A j \in 1..Len(line) : line[j] # MultiByte
    /\ LET pieces == Split(Inner(PayloadOf(line)), ",")
       IN  \A i \in 1..Len(pieces) :
               /\ Contains(pieces[i], "=")
               /\ PairOf(pieces[i])[1] # <<>>
               /\ PlainUpTo(PairOf(pieces[i])[1], Len(PairOf(pieces[i])[1]))
               /\ Unquoted(PairOf(pieces[i])[2]) # <<>>
               /\ PlainUpTo(Unquoted(PairOf(pieces[i])[2]),
                            Len(Unquoted(PairOf(pieces[i])[2])))
    /\ ~HasRepeatedKey(AttrsOf(line))

\* the Number values the library knows: A, G, R, . and decimal numbers
IsNumberText(value) ==
    \/ value \in {<<"A">>, <<"G">>, <<"R">>, <<".">>}
    \/ value # <<>> /\ \A j \in 1..Len(value) : value[j] \in Digits

\* the Type values the library knows for the tag
TypeNamesOf(tag) == IF tag = <<"I", "N", "F", "O">> THEN InfoTypeNames ELSE FormatTypeNames

\* C18: a FORMAT or INFO line without the Number key has Number Unknown and
\* one without the Type key has type String, without an error; a Number or
\* Type written with a value the library does not know is an error; an
\* INFO line without Source and Version has both absent.
C18_NumberTypeDefaults ==
    \A tag \in {<<"F", "O", "R", "M", "A", "T">>, <<"I", "N", "F", "O">>} :
        (/\ pc = "line_parsed"
         /\ IsAttrLine(arg, tag)
         /\ HasKey(AttrsOf(arg), <<"I", "D">>)
         /\ HasKey(AttrsOf(arg), <<"D", "e", "s", "c", "r", "i", "p", "t", "i", "o", "n">>)) =>
            LET attrs == AttrsOf(arg)
                number_ok == HasKey(attrs, <<"N", "u", "m", "b", "e", "r">>)
                                 => IsNumberText(ValueOf(attrs, <<"N", "u", "m", "b", "e", "r">>))
                type_ok == HasKey(attrs, <<"T", "y", "p", "e">>)
                               => ValueOf(attrs, <<"T", "y", "p", "e">>) \in TypeNamesOf(tag)
            IN  IF number_ok /\ type_ok
                THEN /\ IsOk(ret)
                     /\ ~HasKey(attrs, <<"N", "u", "m", "b", "e", "r">>)
                            => ret.val.number.number = "Unknown"
                     /\ ~HasKey(attrs, <<"T", "y", "p", "e">>) => ret.val.typ = <<"S", "t", "r", "i", "n", "g">>
                     /\ (tag = <<"I", "N", "F", "O">> /\ ~HasKey(attrs, <<"S", "o", "u", "r", "c", "e">>))
                            => ret.val.source = None
                     /\ (tag = <<"I", "N", "F", "O">> /\ ~HasKey(attrs, <<"V", "e", "r", "s", "i", "o", "n">>))
                            => ret.val.version = None
                ELSE IsErr(ret)

\* an INFO line with ID and Description only
C18_Witness ==
    /\ pc = "line_parsed"
    /\ arg = <<"#", "#", "I", "N", "F", "O", "=", "<", "I", "D", "=", "N", "S", ",", "D", "e", "s", "c", "r", "i", "p", "t", "i", "o", "n", "=", "\"", "d", "\"", ">">>
    /\ IsAttrLine(arg, <<"I", "N", "F", "O">>)
    /\ IsOk(ret)
    /\ ret.val.number.number = "Unknown"
    /\ ret.val.typ = <<"S", "t", "r", "i", "n", "g">>
    /\ ret.val.source = None /\ ret.val.version = None


\* the line writes its Values in square brackets
HasBracketedValues(line) ==
    LET open == Find(line, "[")
    IN  /\ open > Len(<<"V", "a", "l", "u", "e", "s", "=">>)
        /\ SubSeq(line, open - Len(<<"V", "a", "l", "u", "e", "s", "=">>), open - 1) = <<"V", "a", "l", "u", "e", "s", "=">>
        /\ Find(line, "]") > open

\* the entries written between the brackets, split on commas, the white
\* space around each taken off
ValuesWritten(line) ==
    LET entries == Split(SubSeq(line, Find(line, "[") + 1,
                                Find(line, "]") - 1), ",")
    IN  [i \in 1..Len(entries) |-> Trim(entries[i])]

\* C19: a META line without the Values key makes HeaderLine::from_str
\* return the value-not-found error; with Values, the values are the
\* entries of the Values text split on commas and trimmed, in input order.
C19_MetaValues ==
    pc = "line_parsed" =>
        /\ (IsAttrLine(arg, <<"M", "E", "T", "A">>) /\ ~HasKey(AttrsOf(arg), <<"V", "a", "l", "u", "e", "s">>))
               => IsErr(ret)
        /\ (/\ IsTagged(arg) /\ TagOf(arg) = <<"M", "E", "T", "A">>
            /\ HasBracketedValues(arg) /\ IsOk(ret))
               => ret.val.values = ValuesWritten(arg)


\* the columns of a data line
ColumnsOf(line) == Split(line, "\t")

\* the delimiter of the list a column holds: ID, FILTER and INFO lists are
\* split on semicolons, ALT on commas, FORMAT and samples on colons
DelimiterOf(column) ==
    IF column \in {3, 7, 8} THEN ";" ELSE IF column = 5 THEN "," ELSE ":"

\* a column that must not be empty is empty
HasEmptyColumn(line) ==
    \E c \in 1..Len(ColumnsOf(line)) :
        c \notin {1, 2, 4} /\ ColumnsOf(line)[c] = <<>>

\* a list column holds an empty token between its delimiters
HasEmptyToken(line) ==
    \E c \in 1..Len(ColumnsOf(line)) :
        /\ c \notin {1, 2, 4, 6}
        /\ ColumnsOf(line)[c] # <<>>
        /\ \E i \in 1..Len(Split(ColumnsOf(line)[c], DelimiterOf(c))) :
               Split(ColumnsOf(line)[c], DelimiterOf(c))[i] = <<>>

\* C20: DataLine::new fails when the ID, ALT, QUAL, FILTER, INFO, FORMAT or
\* a sample column is empty, and when a delimited list holds an empty
\* token, as the ID column a;;b does.
C20_EmptyFieldRejected ==
    (pc = "data_parsed"
     /\ (HasEmptyColumn(arg.line) \/ HasEmptyToken(arg.line)))
    => IsErr(ret)


\* the characters that end a line
LineTerminators == {"\n", "\r"}

\* the last entry of the last field of a DataLine: of its last sample, or
\* of INFO when it has no samples; empty when that field is missing
LastFieldText(dl) ==
    LET field == IF dl.samples # <<>> THEN dl.samples[Len(dl.samples)]
                 ELSE dl.info
    IN  IF field.kind = "Entries"
        THEN field.entries[Len(field.entries)]
        ELSE <<>>

\* C21: each pull strips the line terminator before the line is parsed, so
\* the last field of a DataLine read never holds a line-terminator
\* character, for lines ended by LF, by CR LF, and for an unterminated last
\* line.
C21_TerminatorStripped ==
    pc \in {"reading", "reread"} =>
        \A k \in 1..Len(items) :
            (items[k].tag = "Some" /\ IsOk(items[k].val)) =>
                \A j \in 1..Len(LastFieldText(items[k].val.val)) :
                    LastFieldText(items[k].val.val)[j] \notin LineTerminators


\* the first value of the payload is bare and holds a quote or an opening
\* square bracket after its first character
OpenerInsideBareValue(payload) ==
    \E i \in 2..Len(payload), j \in 3..Len(payload) :
        /\ KeyEndsAt(payload, i)
        /\ j > i + 1
        /\ payload[j] \in {"\"", "["}
        /\ \A k \in i + 1..j - 1 :
               payload[k] \notin {",", "\"", "[", "]", "\\"}

\* the first value of the payload is enclosed, and the character after its
\* closer is not a comma
StrayAfterCloser(payload) ==
    \E i \in 2..Len(payload), c \in 4..Len(payload) - 1 :
        /\ c > i + 2
        /\ KeyEndsAt(payload, i)
        /\ payload[i + 1] \in {"\"", "["}
        /\ payload[c] = CloserOf(payload[i + 1])
        /\ \A k \in i + 2..c - 1 :
               payload[k] \notin {"\"", "]", "\\"}
        /\ payload[c + 1] # ","

\* C22: parse_header_payload returns an error whenever a quote or an opening
\* square bracket stands inside a bare value after its first character, the
\* last character of the payload included, and whenever a character other
\* than a comma follows the closer of an enclosed value.
C22_MisplacedDelimiterRejected ==
    (pc = "payload_done"
     /\ (OpenerInsideBareValue(arg) \/ StrayAfterCloser(arg)))
    => IsErr(ret)

\* the same for payloads of one-byte characters in which the quote or
\* bracket is not the last character
C22_NotAtEnd ==
    (/\ pc = "payload_done"
     /\ \A j \in 1..Len(arg) : arg[j] # MultiByte
     /\ \/ OpenerInsideBareValue(SubSeq(arg, 1, Len(arg) - 1))
        \/ StrayAfterCloser(arg))
    => IsErr(ret)


\* sub occurs in text as a run of consecutive characters
HasSubtext(text, sub) ==
    \E i \in 1..Len(text) - Len(sub) + 1 :
        SubSeq(text, i, i + Len(sub) - 1) = sub

\* a PEDIGREE line with the Ancestors relation was parsed and formatted
AncestorsFormatted ==
    /\ pc = "line_formatted"
    /\ ret.val.variant = "Pedigree"
    /\ ret.val.relation.relation = "Ancestors"

\* C23 as written: the text formatted for a Pedigree line with the
\* Ancestors relation does not contain the ID= key.
C23_AncestorsWithoutId ==
    AncestorsFormatted => ~HasSubtext(fmt, <<"I", "D", "=">>)

\* C23 amended: the text formatted for a Pedigree line with the Ancestors
\* relation begins with ##PEDIGREE=<ID=, the id and a comma: the ID= key is
\* written, by the formatter of the header line and not by that of the
\* relation.
C23_AncestorsWithId ==
    AncestorsFormatted =>
        /\ StartsWith(fmt, <<"#", "#", "P", "E", "D", "I", "G", "R", "E", "E", "=", "<", "I", "D", "=">> \o ret.val.id \o <<",">>)
        /\ HasSubtext(fmt, <<"I", "D", "=">>)

\* an Ancestors line with two names, formatted
C23_Witness ==
    /\ AncestorsFormatted
    /\ arg = <<"#", "#", "P", "E", "D", "I", "G", "R", "E", "E", "=", "<", "I", "D", "=", "p", ",", "N", "a", "m", "e", "_", "1", "=", "a", ",", "N", "a", "m", "e", "_", "2", "=", "b", ">">>
    /\ HasSubtext(fmt, <<"I", "D", "=", "p">>)
    /\ HasSubtext(fmt, <<"N", "a", "m", "e", "_", "0", "=", "a">>)


\* the value a sample column stands for: . is Missing, other text is its
\* colon-separated entries
SampleOf(column) ==
    IF column = <<".">> THEN Missing
    ELSE [kind |-> "Entries", entries |-> Split(column, ":")]

\* C24: a DataLine returned for n declared sample columns has a format if
\* and only if n >= 1, and has n sample values, the i-th parsed from column
\* 9 + i of the line, column 9 being the format.
C24_FormatAndSamples ==
    (pc \in {"data_parsed", "data_indexed"} /\ IsOk(ret)) =>
        LET n == Len(arg.column_names)
            columns == ColumnsOf(arg.line)
        IN  /\ ret.val.format.tag = "Some" <=> n >= 1
            /\ Len(ret.val.samples) = n
            /\ \A i \in 1..n : ret.val.samples[i] = SampleOf(columns[9 + i])

\* two declared samples, the first with entries and the second missing
C24_Witness ==
    /\ pc = "data_parsed"
    /\ IsOk(ret)
    /\ Len(arg.column_names) = 2
    /\ ret.val.format.tag = "Some"
    /\ ret.val.samples = <<SampleOf(<<"G", "T", ":", "D", "P">>), Missing>>

\* no declared samples, no format
C24_WitnessNoSamples ==
    /\ pc = "data_parsed"
    /\ IsOk(ret)
    /\ arg.column_names = <<>>
    /\ ret.val.format = None
    /\ ret.val.samples = <<>>


\* C25: the line written with Display for a DataLine that DataLine::new
\* returned has no line terminator at its end, is accepted by DataLine::new
\* under the same sample columns, and parses to an equal DataLine.
C25_DataLineRoundTrip ==
    /\ pc \in {"data_formatted", "data_reparsed"} =>
           (fmt = <<>> \/ fmt[Len(fmt)] \notin LineTerminators)
    /\ pc = "data_reparsed" => (IsOk(ret2) /\ ret2.val = ret.val)

\* a line with two samples whose position is written with a leading zero
\* comes back equal from the text written without the zero
C25_Witness ==
    /\ pc = "data_reparsed"
    /\ Len(arg.column_names) = 2
    /\ IsOk(ret) /\ IsOk(ret2)
    /\ ret.val.samples = <<SampleOf(<<"G", "T", ":", "D", "P">>), Missing>>
    /\ ret.val.id.kind = "Entries"
    /\ fmt # arg.line
    /\ ret2.val = ret.val


\* every line of the text is a ## line that is a version line or is
\* accepted by HeaderLine::from_str: the text ends before a column-name row
EndsBeforeColumnRow(text) ==
    \A i \in 1..Len(PhysicalLines(text)) :
        LET line == PhysicalLines(text)[i]
        IN  /\ StartsWith(line, <<"#", "#">>)
            /\ StartsWith(line, <<"#", "#", "f", "i", "l", "e", "f", "o", "r", "m", "a", "t", "=">>)
                   \/ IsOk(HeaderLine_from_str(line))

\* C26: when the input ends before a column-name row is read, the empty
\* input included, VCFParser::new does not fail; the Header holds the
\* version (empty when no version line was read, that of the last version
\* line when there are several), the header lines read, and no sample
\* columns.  Stated of the state the constructor leaves.
C26_EndBeforeColumnRow ==
    (/\ pc \in {"reading", "failed"} /\ items = <<>> /\ ~writer
     /\ EndsBeforeColumnRow(file))
    => /\ IsOk(header)
       /\ header.val.version = VersionOf(PhysicalLines(file))
       /\ header.val.header_lines = HeaderLinesOf(PhysicalLines(file))
       /\ header.val.column_names = <<>>
       /\ header.val.consumed = Len(file)

\* two version lines and a header line, then the end of the input: the
\* second version is kept
C26_Witness ==
    /\ pc = "reading" /\ items = <<>>
    /\ file = <<"#", "#", "f", "i", "l", "e", "f", "o", "r", "m", "a", "t", "=", "V", "C", "F", "v", "4", ".", "2", "\n", "#", "#", "f", "i", "l", "e", "f", "o", "r", "m", "a", "t", "=", "V", "C", "F", "v", "4", ".", "3", "\n", "#", "#", "F", "I", "L", "T", "E", "R", "=", "<", "I", "D", "=", "q", ",", "D", "e", "s", "c", "r", "i", "p", "t", "i", "o", "n", "=", "\"", "d", "\"", ">", "\n">>
    /\ EndsBeforeColumnRow(file)
    /\ header.val.version = <<"V", "C", "F", "v", "4", ".", "3">>
    /\ Len(header.val.header_lines) = 1
    /\ header.val.column_names = <<>>

\* the empty input gives the empty header
C26_WitnessEmpty ==
    /\ pc = "reading"
    /\ file = <<>>
    /\ header = ParsedHeader(<<>>, <<>>, <<>>, 0)


\* the payload is a list of bare pairs of one-byte characters followed by
\* a comma and a last segment that is not empty and holds no =
HasOrphanSegment(payload) ==
    LET pieces == Split(payload, ",")
        n == Len(pieces)
    IN  /\ n >= 2
        /\ PlainUpTo(payload, Len(payload))
        /\ \A j \in 1..Len(payload) : payload[j] # MultiByte
        /\ pieces[n] # <<>>
        /\ ~Contains(pieces[n], "=")
        /\ \A i \in 1..n - 1 :
               /\ Contains(pieces[i], "=")
               /\ PairOf(pieces[i])[1] # <<>>
               /\ PairOf(pieces[i])[2] # <<>>

\* C27: parse_header_payload does not drop input silently: a key=value
\* payload whose last comma-separated segment is not empty and holds no =,
\* as in ID=x,orphan, is rejected with an error.
C27_OrphanRejected ==
    (pc = "payload_done" /\ HasOrphanSegment(arg)) => IsErr(ret)


\* the text with every multi-byte character replaced by the one-byte
\* character e
OneByte(text) ==
    [j \in 1..Len(text) |-> IF text[j] = MultiByte THEN "e" ELSE text[j]]

\* a result with the same replacement made in the keys and values of its
\* mapping
OneByteResult(result) ==
    IF IsOk(result)
    THEN Ok([i \in 1..Len(result.val) |->
                <<OneByte(result.val[i][1]), OneByte(result.val[i][2])>>])
    ELSE result

\* C28: for a payload that holds multi-byte characters, keys and values
\* are cut at their delimiters and the end of the input is recognised at
\* the last character: the result is the result for the payload with every
\* multi-byte character replaced by a one-byte character, up to that
\* replacement.
C28_MultiByteAsOneByte ==
    (pc = "payload_done" /\ \E j \in 1..Len(arg) : arg[j] = MultiByte)
    => OneByteResult(ret) = parse_header_payload(OneByte(arg))


RECURSIVE BackslashesBefore(_, _, _)
\* the number of consecutive backslashes that end just before position c
\* and begin at position from or later
BackslashesBefore(text, c, from) ==
    IF c - 1 < from \/ text[c - 1] # "\\" THEN 0
    ELSE 1 + BackslashesBefore(text, c - 1, from)

\* the positions from the given one on at which the value enclosed by
\* opener closes: a ] for a bracket, a quote preceded by an even number of
\* backslashes for a quote
ClosersFrom(text, opener, from) ==
    {c \in from..Len(text) :
        IF opener = "[" THEN text[c] = "]"
        ELSE text[c] = "\"" /\ BackslashesBefore(text, c, from) % 2 = 0}

\* the payload is one key followed by an enclosed value, in one-byte
\* characters; i is the position of the =
IsEnclosedAt(payload, i) ==
    /\ i >= 2 /\ i + 1 < Len(payload)
    /\ KeyEndsAt(payload, i)
    /\ \A j \in 1..i - 1 : payload[j] # ","
    /\ payload[i + 1] \in {"\"", "["}
    /\ \A j \in 1..Len(payload) : payload[j] # MultiByte

\* what the claim makes of an enclosed value: no closer is an error; the
\* first closer ends the value, which must not be empty, and must be the
\* end of the payload or be followed by a comma
ClosesAsClaimed(payload, i, result) ==
    LET closers == ClosersFrom(payload, payload[i + 1], i + 2)
        c == CHOOSE c \in closers : \A d \in closers : c <= d
        pair == <<SubSeq(payload, 1, i - 1), SubSeq(payload, i + 2, c - 1)>>
    IN  IF closers = {} THEN IsErr(result)
        ELSE IF c = i + 2 THEN IsErr(result)
        ELSE IF c = Len(payload) \/ SubSeq(payload, c + 1, Len(payload)) = <<",">>
        THEN IsOk(result) /\ result.val = <<pair>>
        ELSE IF payload[c + 1] # "," THEN IsErr(result)
        ELSE IsOk(result) => \E e \in 1..Len(result.val) :
                                 result.val[e][1] = pair[1]

\* C29: inside a double-quoted value a quote closes exactly when an even
\* number of consecutive backslashes, none included, precedes it; inside a
\* bracketed value the first ] closes, whatever precedes it.  Stated for
\* payloads of one-byte characters whose first value is enclosed.
C29_BackslashParity ==
    pc = "payload_done" =>
        \A i \in 1..Len(arg) :
            IsEnclosedAt(arg, i) => ClosesAsClaimed(arg, i, ret)

\* a quote after two backslashes closes the value
C29_Witness ==
    /\ pc = "payload_done"
    /\ arg = <<"a", "=", "\"", "\\", "\\", "\"">>
    /\ IsEnclosedAt(arg, 2)
    /\ ret = Ok(<<<<<<"a">>, <<"\\", "\\">>>>>>)

\* a quote after one backslash does not close it
C29_WitnessEscaped ==
    /\ pc = "payload_done"
    /\ arg = <<"a", "=", "\"", "\\", "\"", "\"">>
    /\ ret = Ok(<<<<<<"a">>, <<"\\", "\"">>>>>>)

\* a ] after a backslash closes a bracketed value
C29_WitnessBracket ==
    /\ pc = "payload_done"
    /\ arg = <<"a", "=", "[", "\\", "]">>
    /\ ret = Ok(<<<<<<"a">>, <<"\\">>>>>>)

====
